---- MODULE Spec2Model ----
(***************************************************************************)
(* RegressAI web clients: the vanilla-JS module set (static/js) and the    *)
(* React single-page app (Frontend/src), both thin clients of one REST     *)
(* backend.  One browser page runs one of the two clients (client); the    *)
(* backend, Firebase and the user are the environment.                     *)
(***************************************************************************)
EXTENDS Integers, FiniteSets, Sequences, TLC

\* ------------------------------------------------------------------------
\* Bounds of the model
\* ------------------------------------------------------------------------
MaxDeepDives == 1      \* largest deep_dives_remaining the backend reports
MaxInFlight  == 2      \* most requests the user has the page send at once
MaxPending   == 1      \* the same, where the subscription is followed
MaxCalls     == 3      \* most calls of loadRazorpayScript on one page

\* ------------------------------------------------------------------------
\* Values
\* ------------------------------------------------------------------------
Null == "null"
Uid == "u1"
CaseIds == {"c1", "c2"}
VersionIds == {"v1", "v2", "v3"}
ChartKeys == {"radar", "quality", "performance", "hallucination"}
Texts == {"", " ", "hi"}        \* contents of a comment box

\* String.prototype.trim on the texts of the model: blanks only -> ""
Trim(t) == IF t = " " THEN "" ELSE t

\* A JS object of the backend, every optional member as a 0/1-element set
\* (absent = {}), flags as booleans (absent = FALSE).
EmptyObj ==
  [ analysis_response  |-> {},
    is_deep_dive       |-> FALSE,
    deep_dive_metrics  |-> FALSE,
    visualization_data |-> {},      \* {} absent, {keys} an object with keys
    deepMetrics        |-> FALSE,   \* the alias of deep_dive_metrics
    viz                |-> {},      \* the alias of visualization_data
    evaluation         |-> {},      \* {} absent, {[llm_judge |-> ..]}
    llm_judge          |-> {},      \* {} absent, {judge}
    version_id         |-> Null,
    case_id            |-> Null ]

AllKeys == ChartKeys

\* the analysis object the analyzer produced for a version
AnalysisOf(v) ==
  IF v = "v1"
  THEN [EmptyObj EXCEPT !.version_id = v]
  ELSE [EmptyObj EXCEPT !.version_id = v, !.is_deep_dive = TRUE,
                        !.deep_dive_metrics = TRUE,
                        !.visualization_data = {AllKeys}]

\* v1 and v2 belong to case c1, v3 to case c2
CaseOf(v) == IF v = "v3" THEN "c2" ELSE "c1"

\* body of a successful /api/versions/get: the version wrapper
ServerVersion(v) ==
  [EmptyObj EXCEPT !.analysis_response = {AnalysisOf(v)},
                   !.version_id = v, !.case_id = CaseOf(v)]

\* body of a successful /api/deep-dive for a request with case_id cid: the
\* bare analysis object of the version the run created
DeepDiveData(cid) ==
  LET v == IF cid = "c1" THEN "v2" ELSE "v3"
  IN  [AnalysisOf(v) EXCEPT !.case_id = CaseOf(v)]

Subscription(t, p, n) == [tier |-> t, is_premium |-> p, deep_dives_remaining |-> n]
FreeSub == Subscription("free", FALSE, 0)
\* bodies of a successful /api/subscription/check
SubscriptionData ==
  {FreeSub} \cup {Subscription("pro", TRUE, n) : n \in 0..MaxDeepDives}
\* the ten form fields inputs.js tracks
Fields == {"oldApi", "newApi", "envVars", "bodyTemplate", "responsePath",
           "goal", "oldPrompt", "newPrompt", "numCases", "questionsManual"}
Undefined == "undefined"         \* a property an object does not have
OrderIds == {Null, "order_1"}    \* order.order_id of a create-order body
Statuses == {200, 401, 403, 500, 0}     \* 0: no response (network error)

VARIABLES
  client,            \* "vanilla" | "react": which client the page runs
  location,          \* "/app" | "/login"
  currentUser,       \* window.currentUser / AuthContext currentUser
  appState,          \* state.js appState
  userSubscription,  \* premium.js userSubscription
  premium_status,    \* localStorage premium_status: {} or {subscription}
  ui,                \* results.js module state and the DOM it and premium.js write
  net,               \* requests in flight, each with its continuation
  alertMsg,          \* the alert() texts the handler that ran last showed
  bootLog,           \* vanilla auth bootstrap: its events so far, in order
  authUser,          \* Firebase auth.currentUser
  user_id,           \* localStorage user_id: {} or {uid}
  auth_token,        \* localStorage auth_token: {} or {token}
  react,             \* state of the React components
  lastOp,            \* the handler or callback that ran last
  hist               \* what the user and the backend did last (history)

reactVars == <<authUser, user_id, auth_token, react>>
vars == <<client, location, currentUser, appState, userSubscription,
          premium_status, ui, net, alertMsg, bootLog, reactVars, lastOp, hist>>

\* ------------------------------------------------------------------------
\* results.js
\* ------------------------------------------------------------------------
\* a || b on optional members
Or(a, b) == IF a # {} THEN a ELSE b

\* a normalizeVersionPayload that read the deep-dive flags of the payload
\* itself, whatever its shape
normalizeVersionPayloadTopLevel(raw) ==
  LET asVersion == raw.analysis_response # {}
      analysis  == IF asVersion THEN CHOOSE a \in raw.analysis_response : TRUE
                   ELSE raw
      evaluation == Or(raw.evaluation, analysis.evaluation)
      llmJudge  == Or(IF evaluation = {} THEN {}
                      ELSE (CHOOSE e \in evaluation : TRUE).llm_judge,
                      analysis.llm_judge)
      vid == IF raw.version_id # Null THEN raw.version_id ELSE analysis.version_id
  IN  [ version_id         |-> vid,
        is_deep_dive       |-> (raw.is_deep_dive \/ raw.deep_dive_metrics),
        visualization_data |-> Or(analysis.visualization_data, analysis.viz),
        deep_dive_metrics  |-> (analysis.deep_dive_metrics \/ analysis.deepMetrics),
        llmJudge           |-> llmJudge ]

normalizeVersionPayload(raw) ==
  LET asVersion == raw.analysis_response # {}
      analysis  == IF asVersion THEN CHOOSE a \in raw.analysis_response : TRUE
                   ELSE raw
      evaluation == Or(raw.evaluation, analysis.evaluation)
      llmJudge  == Or(IF evaluation = {} THEN {}
                      ELSE (CHOOSE e \in evaluation : TRUE).llm_judge,
                      analysis.llm_judge)
      vid == IF raw.version_id # Null THEN raw.version_id ELSE analysis.version_id
  IN  [ version_id         |-> vid,
        is_deep_dive       |-> (analysis.is_deep_dive \/ analysis.deep_dive_metrics
                                \/ raw.is_deep_dive),
        visualization_data |-> Or(analysis.visualization_data, analysis.viz),
        deep_dive_metrics  |-> (analysis.deep_dive_metrics \/ analysis.deepMetrics),
        llmJudge           |-> llmJudge ]

destroyAllCharts(r) ==
  [r EXCEPT
     !.canvasChart  = [k \in ChartKeys |->
                         IF r.activeCharts[k] = "live" THEN Null
                         ELSE r.canvasChart[k]],
     !.activeCharts = [k \in ChartKeys |-> "absent"]]

hideVisualizationTab(r) ==
  [r EXCEPT !.vizTabDisplay = "none", !.vizPaneDisplay = "none",
            !.activeTab = IF r.activeTab = "visualizations" THEN Null
                          ELSE r.activeTab]

showVisualizationTab(r) ==
  [r EXCEPT !.vizTabDisplay = "inline-flex", !.vizPaneDisplay = "block",
            !.activeTab = IF r.activeTab = Null THEN "visualizations"
                          ELSE r.activeTab]

\* renderRadarChart .. renderHallucinationChart for version v: new Chart()
\* throws on a canvas that still holds a live chart, and the chart is then
\* neither created nor registered
renderCharts(r, v, keys) ==
  [r EXCEPT
     !.canvasChart  = [k \in ChartKeys |->
                         IF k \in keys /\ r.canvasChart[k] = Null THEN v
                         ELSE r.canvasChart[k]],
     !.activeCharts = [k \in ChartKeys |->
                         IF k \in keys /\ r.canvasChart[k] = Null THEN "live"
                         ELSE r.activeCharts[k]]]

renderVisualizationsInternal(r, v, vizData) ==
  IF vizData = {} THEN r
  ELSE LET keys == CHOOSE ks \in vizData : TRUE
       IN  [renderCharts(destroyAllCharts(r), v, keys) EXCEPT !.deepMetricsFor = v]

\* the callback renderResults hands to waitForVisible
vizCallback(r, v, vizData) ==
  renderVisualizationsInternal(destroyAllCharts(r), v, vizData)

clearResults(r) ==
  [hideVisualizationTab(destroyAllCharts(r)) EXCEPT
     !.summaryFor = Null, !.deepMetricsFor = Null,
     !.lastRenderedVersionId = Null, !.lastWasDeepDive = FALSE]

\* ready: whether the visualization pane is laid out (non-zero size) when
\* waitForVisible looks at it
renderResults(r, payload, ready) ==
  LET n  == normalizeVersionPayload(payload)
      r1 == IF r.lastRenderedVersionId # Null
               /\ r.lastRenderedVersionId # n.version_id
            THEN hideVisualizationTab(destroyAllCharts(r)) ELSE r
      r2 == [r1 EXCEPT !.lastRenderedVersionId = n.version_id,
                       !.lastWasDeepDive = n.is_deep_dive,
                       !.summaryFor = n.version_id]
  IN  IF n.is_deep_dive /\ n.visualization_data # {} /\ n.deep_dive_metrics
      THEN LET r3 == showVisualizationTab(r2)
           IN  IF ready THEN vizCallback(r3, n.version_id, n.visualization_data)
               ELSE [r3 EXCEPT !.observers = @ \cup {n.version_id}]
      ELSE hideVisualizationTab(destroyAllCharts(r2))

\* ------------------------------------------------------------------------
\* premium.js
\* ------------------------------------------------------------------------
updatePremiumUI(r, sub) ==
  [r EXCEPT
     !.deepDiveBtnDisplay  = IF sub.is_premium THEN "inline-block" ELSE "none",
     !.premiumBadgeDisplay = IF sub.is_premium THEN "flex" ELSE "none",
     !.remainingText       = IF sub.is_premium THEN sub.deep_dives_remaining ELSE @,
     !.vizTabDisplay       = IF sub.is_premium THEN "inline-block" ELSE "none"]

\* premium.js renderVisualizations: Chart.getChart(canvas).destroy() on the
\* four canvases, then new Chart() for every key of vizData; these charts
\* are not entered in results.js activeCharts
premiumRenderVisualizations(r, v, vizData) ==
  LET keys == IF vizData = {} THEN {} ELSE CHOOSE ks \in vizData : TRUE
  IN  [r EXCEPT
         !.canvasChart  = [k \in ChartKeys |-> IF k \in keys THEN v ELSE Null],
         !.activeCharts = [k \in ChartKeys |->
                             IF r.activeCharts[k] = "live" THEN "stale"
                             ELSE r.activeCharts[k]],
         !.deepMetricsFor = v]

\* the .then() of renderDeepDiveResults
renderDeepDiveResults(r, data, ready) ==
  LET r1 == renderResults(r, data, ready)
  IN  IF data.is_deep_dive /\ data.visualization_data # {} /\ data.deep_dive_metrics
      THEN premiumRenderVisualizations(r1, data.version_id, data.visualization_data)
      ELSE r1

\* ------------------------------------------------------------------------
\* Page state right after the scripts of /app have loaded
\* ------------------------------------------------------------------------
FreshUi ==
  [ lastRenderedVersionId |-> Null,
    lastWasDeepDive       |-> FALSE,
    activeCharts          |-> [k \in ChartKeys |-> "absent"],
    canvasChart           |-> [k \in ChartKeys |-> Null],
    observers             |-> {},
    vizTabDisplay         |-> "none",
    vizPaneDisplay        |-> "none",
    activeTab             |-> "summary",     \* app.js setupDefaultTab
    summaryFor            |-> Null,          \* what #summaryCard shows
    deepMetricsFor        |-> Null,          \* what #deepMetrics shows
    commentsFor           |-> Null,          \* whose comments #commentsList shows
    newCommentText        |-> "",            \* #newCommentText value
    deepDiveBtnDisplay    |-> "none",
    deepDiveBtnDisabled   |-> FALSE,
    premiumBadgeDisplay   |-> "none",
    remainingText         |-> 0,             \* "<n> deep dives left"
    pricingModalDisplay   |-> "none",
    teamFor               |-> Null,          \* whose members #teamMembersList shows
    checkoutOrder         |-> Null,          \* order_id of the Razorpay options
    inputs                |-> [f \in Fields |-> ""],   \* values of the form
    analyzeDisabled       |-> FALSE,         \* .btn-analyze disabled
    analyzeLoading        |-> FALSE,         \* .btn-analyze has class loading
    statusText            |-> "",            \* #statusText
    Razorpay              |-> FALSE,         \* window.Razorpay is defined
    scripts               |-> 0,             \* checkout.js elements appended
    scriptState           |-> "none",        \* of the element: loading, ..
    loads                 |-> <<>>,          \* the calls of loadRazorpayScript
    timers                |-> {} ]           \* pending callbacks: timers, Razorpay

FreshAppState ==
  [cases |-> <<>>, activeCaseId |-> Null, activeVersionId |-> Null,
   lastRunInputs |-> [f \in Fields |-> Undefined],      \* {}
   hasUnsavedChanges |-> FALSE,
   hasApiKey |-> FALSE]

\* ------------------------------------------------------------------------
\* inputs.js and ui.js
\* ------------------------------------------------------------------------
\* value || "" of each field
captureCurrentInputs(u) == [f \in Fields |-> u.inputs[f]]

\* a comparison that looks at the first field only
hasInputsChangedFirstOnly(u, s) ==
  captureCurrentInputs(u)["oldApi"] # s.lastRunInputs["oldApi"]

hasInputsChanged(u, s) ==
  \E key \in Fields : captureCurrentInputs(u)[key] # s.lastRunInputs[key]

updateAnalyzeButton(u, s) ==
  IF ~s.hasApiKey THEN [u EXCEPT !.analyzeDisabled = TRUE]
  ELSE IF s.hasUnsavedChanges THEN [u EXCEPT !.analyzeDisabled = FALSE]
  ELSE IF s.activeVersionId # Null THEN [u EXCEPT !.analyzeDisabled = TRUE]
  ELSE u

\* populateInputsFromVersion: the stored versions were all run with the
\* same request, the two endpoints and the defaults of the other fields
VersionInputs ==
  [f \in Fields |->
     IF f \in {"oldApi", "newApi"} THEN "api"
     ELSE IF f = "envVars" THEN "{}"
     ELSE IF f = "bodyTemplate" THEN "{{question}}"
     ELSE IF f = "responsePath" THEN "choices[0].message.content"
     ELSE IF f = "numCases" THEN "3"
     ELSE ""]

populateInputsFromVersion(u, version) == [u EXCEPT !.inputs = VersionInputs]

\* the end of selectVersion, of runAnalysis and of runDeepDive: the inputs
\* of the form become the last run inputs
resetChangeTracking(s, u) ==
  [s EXCEPT !.lastRunInputs = captureCurrentInputs(u),
            !.hasUnsavedChanges = FALSE]

\* /api/cases/list of the signed-in user
ServerCases == <<"c1", "c2">>
\* data.versions[0] of a /api/cases/get body: some version of the case, or
\* Null when the case has no versions
LatestVersions(c) == {v \in VersionIds : CaseOf(v) = c} \cup {Null}

\* premium.js module initialisation: userSubscription from the cache
FreshUserSubscription(cache) ==
  IF cache = {} THEN FreeSub ELSE CHOOSE c \in cache : TRUE

Req(op, url, uid, vid, cid) ==
  [op |-> op, url |-> url, user_id |-> uid, vid |-> vid, cid |-> cid,
   by |-> op, retry |-> FALSE, sent |-> 1,
   use_regressai_api |-> FALSE]       \* of the payload of /api/analyze

Vanilla == client = "vanilla" /\ location = "/app"
MaySend == Cardinality(net) < MaxInFlight

\* History: the version the user selected last, and, when the step taken
\* last was a response passing the React interceptor (answered), its status,
\* whether it answered a retry, and what getAuthToken and signOut gave
FreshHist ==
  [lastSelected |-> Null, answered |-> FALSE, status |-> 200, retry |-> FALSE,
   tok |-> "unused", signOutOk |-> TRUE,
   payload |-> {},      \* the payload renderResults was called with last
   beforeInput |-> {},  \* the form and hasUnsavedChanges before the last
                        \* input event
   tabBefore |-> "summary",  \* the active tab of ResultsPanel before the
                             \* last step of the React client
   lastCase |-> Null]   \* the case whose details a click in the sidebar of
                        \* the React client has loaded last

noAnswer(h) == [FreshHist EXCEPT !.lastSelected = h.lastSelected,
                                 !.tabBefore = react.activeTab,
                                 !.lastCase = h.lastCase]

\* ------------------------------------------------------------------------
\* Vanilla client: versions.js
\* ------------------------------------------------------------------------
\* selectVersion up to its first await.  fetchVersion reads
\* window.currentUser.uid and throws before sending when nobody is signed in.
selectVersion(versionId) ==
  /\ Vanilla /\ MaySend
  /\ ui' = clearResults(ui)
  /\ net' = IF currentUser = Null THEN net
            ELSE net \cup {Req("selectVersion", "/api/versions/get",
                               {currentUser}, versionId, Null)}
  /\ lastOp' = "selectVersion"
  /\ hist' = [hist EXCEPT !.lastSelected = versionId]
  /\ UNCHANGED <<reactVars, bootLog, client, location, currentUser, appState, userSubscription,
                 premium_status>>
  /\ alertMsg' = <<>>

\* a selectVersion that dropped the answer of a version other than the one
\* selected last, as a request token or an AbortController would make it
selectVersionFetchedIfLatest(req, status, ready) ==
  /\ Vanilla
  /\ req \in net /\ req.op = "selectVersion"
  /\ lastOp' = IF status = 200 THEN "selectVersionFetched.ok"
               ELSE "selectVersionFetched.failed"
  /\ IF status # 200 \/ req.vid # hist.lastSelected
     THEN /\ net' = net \ {req}
          /\ UNCHANGED <<appState, ui>>
     ELSE LET version == ServerVersion(req.vid)
          IN  /\ appState' = [appState EXCEPT
                                !.activeVersionId = req.vid,
                                !.activeCaseId = IF version.case_id # Null
                                                 THEN version.case_id ELSE @]
              /\ ui' = renderResults(populateInputsFromVersion(ui, version),
                                     version, ready)
              /\ net' = (net \ {req}) \cup
                          {Req("selectVersion.loadComments", "/api/comments/list",
                               {}, req.vid, Null)}
  /\ UNCHANGED <<reactVars, hist, bootLog, client, location, currentUser, userSubscription,
                 premium_status>>
  /\ alertMsg' = <<>>

\* selectVersion from the answer of /api/versions/get up to the await of
\* loadComments; loadComments posts {version_id} only
selectVersionFetched(req, status, ready) ==
  /\ Vanilla
  /\ req \in net /\ req.op = "selectVersion"
  /\ lastOp' = IF status = 200 THEN "selectVersionFetched.ok"
               ELSE "selectVersionFetched.failed"
  /\ IF status # 200
     THEN /\ net' = net \ {req}
          /\ UNCHANGED <<appState, ui>>
     ELSE LET version == ServerVersion(req.vid)
          IN  /\ appState' = [appState EXCEPT
                                !.activeVersionId = req.vid,
                                !.activeCaseId = IF version.case_id # Null
                                                 THEN version.case_id ELSE @]
              /\ ui' = renderResults(populateInputsFromVersion(ui, version),
                                     version, ready)
              /\ net' = (net \ {req}) \cup
                          {Req("selectVersion.loadComments", "/api/comments/list",
                               {}, req.vid, Null)}
  /\ UNCHANGED <<reactVars, hist, bootLog, client, location, currentUser, userSubscription,
                 premium_status>>
  /\ alertMsg' = <<>>

\* loadComments from the answer of /api/comments/list, then the rest of
\* the function that awaited it
loadCommentsFetched(req, status) ==
  /\ Vanilla
  /\ req \in net
  /\ req.op \in {"selectVersion.loadComments", "addComment.loadComments"}
  /\ lastOp' = "loadCommentsFetched"
  /\ net' = net \ {req}
  /\ LET u == IF status = 0 THEN ui ELSE [ui EXCEPT !.commentsFor = req.vid]
     IN  IF req.op = "selectVersion.loadComments"
         THEN /\ appState' = resetChangeTracking(appState, u)
              /\ ui' = updateAnalyzeButton(u, appState')
         ELSE /\ ui' = u
              /\ UNCHANGED appState
  /\ UNCHANGED <<reactVars, hist, bootLog, client, location, currentUser,
                 userSubscription, premium_status>>
  /\ alertMsg' = <<>>

\* the ResizeObserver registered by waitForVisible reports the pane laid out
resizeObserved(v) ==
  /\ Vanilla
  /\ v \in ui.observers
  /\ ui.vizPaneDisplay = "block"
  /\ ui' = vizCallback([ui EXCEPT !.observers = @ \ {v}], v,
                       AnalysisOf(v).visualization_data)
  /\ lastOp' = "resizeObserved"
  /\ UNCHANGED <<reactVars, hist, bootLog, client, location, currentUser, appState, userSubscription,
                 premium_status, net>>
  /\ alertMsg' = <<>>

\* ------------------------------------------------------------------------
\* Vanilla client: premium.js
\* ------------------------------------------------------------------------
\* what checkSubscription does up to its await, as a function of the caller
checkSubscriptionReqs(by) ==
  IF currentUser = Null THEN {}
  ELSE {[Req("checkSubscription", "/api/subscription/check",
             {currentUser}, Null, Null) EXCEPT !.by = by]}

\* userSubscription as checkSubscription builds it from a 200 body
normalizeSubscription(data) ==
  [ tier |-> data.tier,
    is_premium |-> (data.is_premium \/ data.tier = "pro"),
    deep_dives_remaining |-> data.deep_dives_remaining ]

\* the Razorpay handler of upgradeToPro awaited checkSubscription: it goes
\* on to closePricingModal
closeAfterUpgrade(r, req) ==
  IF req.by = "upgradeToPro" THEN [r EXCEPT !.pricingModalDisplay = "none"]
  ELSE r

\* checkSubscription from the answer of /api/subscription/check on
checkSubscriptionDone(req, status, data) ==
  /\ Vanilla
  /\ req \in net /\ req.op = "checkSubscription"
  /\ lastOp' = IF status = 200 THEN "checkSubscription.ok"
               ELSE "checkSubscription.failed"
  /\ net' = net \ {req}
  /\ IF status = 200
     THEN /\ userSubscription' = normalizeSubscription(data)
          /\ premium_status' = {userSubscription'}
          /\ ui' = closeAfterUpgrade(updatePremiumUI(ui, userSubscription'), req)
     ELSE IF premium_status # {}
     THEN /\ userSubscription' = CHOOSE c \in premium_status : TRUE
          /\ ui' = closeAfterUpgrade(updatePremiumUI(ui, userSubscription'), req)
          /\ UNCHANGED premium_status
     ELSE /\ ui' = closeAfterUpgrade(ui, req)
          /\ UNCHANGED <<userSubscription, premium_status>>
  /\ alertMsg' = <<>>
  /\ UNCHANGED <<reactVars, hist, bootLog, client, location, currentUser, appState>>

\* the setTimeout(updatePremiumUI, 100) of the module initialisation
premiumInitTimer ==
  /\ Vanilla
  /\ "updatePremiumUI" \in ui.timers
  /\ ui' = updatePremiumUI([ui EXCEPT !.timers = @ \ {"updatePremiumUI"}],
                           userSubscription)
  /\ lastOp' = "updatePremiumUI"
  /\ UNCHANGED <<reactVars, hist, bootLog, client, location, currentUser, appState, userSubscription,
                 premium_status, net>>
  /\ alertMsg' = <<>>

\* runDeepDive up to its await of fetch("/api/deep-dive")
runDeepDive ==
  /\ Vanilla /\ MaySend
  /\ ~ui.deepDiveBtnDisabled
  /\ lastOp' = "runDeepDive"
  /\ IF currentUser = Null
     THEN /\ alertMsg' = <<"Please sign in first">>
          /\ UNCHANGED <<ui, net>>
     ELSE IF ~userSubscription.is_premium
     THEN /\ ui' = [ui EXCEPT !.pricingModalDisplay = "flex"]
          /\ alertMsg' = <<>> /\ UNCHANGED net
     ELSE IF userSubscription.deep_dives_remaining <= 0
     THEN /\ alertMsg' = <<"You've used all your deep dives for this month.">>
          /\ UNCHANGED <<ui, net>>
     ELSE /\ ui' = [ui EXCEPT !.activeTab = "summary",
                              !.summaryFor = "loading",
                              !.statusText = "Deep Dive Running",
                              !.deepDiveBtnDisabled = TRUE]
          /\ net' = net \cup {Req("runDeepDive", "/api/deep-dive", {currentUser},
                                   Null, appState.activeCaseId)}
          /\ alertMsg' = <<>>
  /\ UNCHANGED <<reactVars, hist, bootLog, client, location, currentUser, appState, userSubscription,
                 premium_status>>

\* runDeepDive from the answer of /api/deep-dive up to its await of
\* loadCases; left: the deep_dives_remaining of the body
runDeepDiveDone(req, status, left, ready) ==
  /\ Vanilla
  /\ req \in net /\ req.op = "runDeepDive"
  /\ lastOp' = "runDeepDiveDone"
  /\ IF status # 200
     THEN /\ ui' = [ui EXCEPT !.summaryFor = "error",
                              !.statusText = "Error",
                              !.deepDiveBtnDisabled = FALSE]
          /\ net' = net \ {req}
          /\ UNCHANGED <<appState, userSubscription, premium_status>>
     ELSE LET data == DeepDiveData(req.cid)
          IN  /\ appState' = resetChangeTracking(
                                [appState EXCEPT
                                   !.activeCaseId = data.case_id,
                                   !.activeVersionId = data.version_id], ui)
              /\ userSubscription' =
                   [userSubscription EXCEPT !.deep_dives_remaining = left]
              /\ premium_status' = {userSubscription'}
              /\ ui' = [renderDeepDiveResults(
                          updatePremiumUI(ui, userSubscription'), data, ready)
                        EXCEPT !.statusText = "Deep Dive Complete"]
              /\ net' = (net \ {req}) \cup
                          {Req("runDeepDive.loadCases", "/api/cases/list",
                               {currentUser}, Null, Null)}
  /\ UNCHANGED <<reactVars, hist, bootLog, client, location, currentUser>>
  /\ alertMsg' = <<>>

\* runDeepDive from the answer of /api/cases/list to its end
runDeepDiveCasesLoaded(req, status) ==
  /\ Vanilla
  /\ req \in net /\ req.op = "runDeepDive.loadCases"
  /\ lastOp' = "runDeepDiveCasesLoaded"
  /\ net' = net \ {req}
  /\ ui' = IF status = 0
           THEN [ui EXCEPT !.summaryFor = "error", !.statusText = "Error",
                           !.deepDiveBtnDisabled = FALSE]
           ELSE [ui EXCEPT !.activeTab = "visualizations",
                           !.deepDiveBtnDisabled = FALSE]
  /\ UNCHANGED <<reactVars, hist, bootLog, client, location, currentUser, appState, userSubscription,
                 premium_status>>
  /\ alertMsg' = <<>>

\* ------------------------------------------------------------------------
\* Vanilla client: inputs.js and analysis.js
\* ------------------------------------------------------------------------
\* the listener setupInputChangeListeners puts on each of the ten fields:
\* the user has changed field f to value
inputEvent(f, value) ==
  /\ Vanilla
  /\ value # ui.inputs[f]
  /\ LET u == [ui EXCEPT !.inputs[f] = value]
     IN  /\ appState' = [appState EXCEPT
                           !.hasUnsavedChanges = hasInputsChanged(u, appState)]
         /\ ui' = updateAnalyzeButton(u, appState')
  /\ hist' = [hist EXCEPT !.beforeInput =
                 {[inputs |-> ui.inputs,
                   hasUnsavedChanges |-> appState.hasUnsavedChanges]}]
  /\ lastOp' = "inputEvent"
  /\ alertMsg' = <<>>
  /\ UNCHANGED <<reactVars, bootLog, client, location, currentUser,
                 userSubscription, premium_status, net>>

\* a click on #btnAnalyze: runAnalysis up to the await of fetch in
\* checkPremiumStatus
runAnalysis ==
  /\ Vanilla /\ MaySend
  /\ ~ui.analyzeDisabled
  /\ lastOp' = "runAnalysis"
  /\ IF currentUser = Null
     THEN /\ alertMsg' = <<"Please sign in first">>
          /\ UNCHANGED net
     ELSE /\ net' = net \cup {Req("checkPremiumStatus", "/api/subscription/check",
                                  {currentUser}, Null, Null)}
          /\ alertMsg' = <<>>
  /\ UNCHANGED <<reactVars, hist, bootLog, client, location, currentUser,
                 appState, userSubscription, premium_status, ui>>

\* checkPremiumStatus from the answer on: data.is_premium of an ok answer,
\* false otherwise
checkPremiumStatus(status, data) ==
  IF status = 200 THEN data.is_premium ELSE FALSE

\* payload.body_template of runAnalysis holds {{question}}
HasPlaceholder(u) == u.inputs["bodyTemplate"] \in {"", "{{question}}"}

\* how the step is recorded: whether /api/subscription/check was answered ok
checkedAs(status) == IF status = 200 THEN "checked" ELSE "checkFailed"

\* runAnalysis from the answer of checkPremiumStatus up to its await of
\* runAnalysisAPI; confirmed: the answer to confirm()
runAnalysisChecked(req, status, data, confirmed) ==
  /\ Vanilla
  /\ req \in net /\ req.op = "checkPremiumStatus"
  /\ LET isPremium == checkPremiumStatus(status, data)
         mode == IF ui.inputs["questionsManual"] = "" THEN "generate"
                 ELSE "manual"
     IN  IF ~isPremium /\ ~appState.hasApiKey
         THEN /\ alertMsg' = <<"Please configure your Groq API key in Settings first">>
              /\ net' = (net \ {req}) \cup
                          {Req("openSettings", "/api/user/api-key/status",
                               {currentUser}, Null, Null)}
              /\ lastOp' = checkedAs(status) \o ".noApiKey"
              /\ UNCHANGED ui
         ELSE IF mode = "generate" /\ ~HasPlaceholder(ui) /\ ~confirmed
         THEN /\ alertMsg' = <<>>
              /\ net' = net \ {req}
              /\ lastOp' = checkedAs(status) \o ".cancelled"
              /\ UNCHANGED ui
         ELSE /\ alertMsg' = <<>>
              /\ net' = (net \ {req}) \cup
                          {[Req("runAnalysis", "/api/analyze", {currentUser},
                                Null, appState.activeCaseId)
                            EXCEPT !.use_regressai_api = isPremium]}
              /\ ui' = [ui EXCEPT !.activeTab = "summary",
                                  !.summaryFor = "loading",
                                  !.statusText = "Running",
                                  !.analyzeDisabled = TRUE,
                                  !.analyzeLoading = TRUE]
              /\ lastOp' = checkedAs(status) \o ".sent"
  /\ UNCHANGED <<reactVars, hist, bootLog, client, location, currentUser,
                 appState, userSubscription, premium_status>>

\* openSettings from the answer of checkApiKeyStatus on
openSettingsDone(req, status, has_api_key) ==
  /\ Vanilla
  /\ req \in net /\ req.op = "openSettings"
  /\ net' = net \ {req}
  /\ appState' = IF status = 0 THEN appState
                 ELSE [appState EXCEPT !.hasApiKey = has_api_key]
  /\ lastOp' = "openSettingsDone"
  /\ alertMsg' = <<>>
  /\ UNCHANGED <<reactVars, hist, bootLog, client, location, currentUser,
                 userSubscription, premium_status, ui>>

\* a test of the answer that looks at the status only
validAnalysisAnyBody(status, hasIds) == status = 200

\* res.ok of runAnalysisAPI and data.case_id && data.version_id
validAnalysis(status, hasIds) == status = 200 /\ hasIds

\* the catch and the finally of runAnalysis
runAnalysisFailed(u, s) ==
  updateAnalyzeButton([u EXCEPT !.summaryFor = "error",
                                !.statusText = "Error",
                                !.analyzeDisabled = FALSE,
                                !.analyzeLoading = FALSE], s)

\* runAnalysis from the answer of /api/analyze up to its await of loadCases,
\* or to its end; hasIds: the body has case_id and version_id
runAnalysisDone(req, status, hasIds, ready) ==
  /\ Vanilla
  /\ req \in net /\ req.op = "runAnalysis"
  /\ IF validAnalysis(status, hasIds)
     THEN LET v == IF req.cid = "c2" THEN "v3" ELSE "v1"
              data == [AnalysisOf(v) EXCEPT !.case_id = CaseOf(v)]
          IN  /\ appState' = resetChangeTracking(
                                [appState EXCEPT
                                   !.activeCaseId = data.case_id,
                                   !.activeVersionId = data.version_id], ui)
              /\ ui' = [renderResults(ui, data, ready)
                        EXCEPT !.statusText = "Done"]
              /\ net' = (net \ {req}) \cup
                          {Req("runAnalysis.loadCases", "/api/cases/list",
                               {currentUser}, Null, Null)}
     ELSE /\ ui' = runAnalysisFailed(ui, appState)
          /\ net' = net \ {req}
          /\ UNCHANGED appState
  /\ lastOp' = IF status = 200 /\ hasIds THEN "analyze.answered"
               ELSE "analyze.failed"
  /\ alertMsg' = <<>>
  /\ UNCHANGED <<reactVars, hist, bootLog, client, location, currentUser,
                 userSubscription, premium_status>>

\* runAnalysis from the answer of /api/cases/list to its end
runAnalysisCasesLoaded(req, status) ==
  /\ Vanilla
  /\ req \in net /\ req.op = "runAnalysis.loadCases"
  /\ net' = net \ {req}
  /\ ui' = IF status = 0 THEN runAnalysisFailed(ui, appState)
           ELSE updateAnalyzeButton([ui EXCEPT !.analyzeDisabled = FALSE,
                                               !.analyzeLoading = FALSE],
                                    appState)
  /\ lastOp' = "runAnalysisCasesLoaded"
  /\ alertMsg' = <<>>
  /\ UNCHANGED <<reactVars, hist, bootLog, client, location, currentUser,
                 appState, userSubscription, premium_status>>

\* ------------------------------------------------------------------------
\* Vanilla client: collaboration.js comments
\* ------------------------------------------------------------------------
typeComment(t) ==
  /\ Vanilla
  /\ t # ui.newCommentText
  /\ ui' = [ui EXCEPT !.newCommentText = t]
  /\ lastOp' = "typeComment"
  /\ UNCHANGED <<reactVars, hist, bootLog, client, location, currentUser, appState, userSubscription,
                 premium_status, net>>
  /\ alertMsg' = <<>>

\* an addComment without the guard on appState.activeVersionId
addCommentUnguarded ==
  /\ Vanilla /\ MaySend
  /\ lastOp' = "addComment"
  /\ LET text == Trim(ui.newCommentText)
     IN  IF text = ""
         THEN alertMsg' = <<>> /\ UNCHANGED net
         ELSE IF currentUser = Null
         THEN /\ alertMsg' = <<"You must be logged in to comment">>
              /\ UNCHANGED net
         ELSE /\ net' = net \cup {Req("addComment", "/api/comments/create",
                                      {currentUser}, appState.activeVersionId,
                                      appState.activeCaseId)}
              /\ alertMsg' = <<>>
  /\ UNCHANGED <<reactVars, hist, bootLog, client, location, currentUser, appState, userSubscription,
                 premium_status, ui>>

\* addComment up to its await of fetch("/api/comments/create")
addComment ==
  /\ Vanilla /\ MaySend
  /\ lastOp' = "addComment"
  /\ LET text == Trim(ui.newCommentText)
     IN  IF text = ""
         THEN alertMsg' = <<>> /\ UNCHANGED net
         ELSE IF appState.activeVersionId = Null
         THEN /\ alertMsg' = <<"Please select a version first">>
              /\ UNCHANGED net
         ELSE IF currentUser = Null
         THEN /\ alertMsg' = <<"You must be logged in to comment">>
              /\ UNCHANGED net
         ELSE /\ net' = net \cup {Req("addComment", "/api/comments/create",
                                      {currentUser}, appState.activeVersionId,
                                      appState.activeCaseId)}
              /\ alertMsg' = <<>>
  /\ UNCHANGED <<reactVars, hist, bootLog, client, location, currentUser, appState, userSubscription,
                 premium_status, ui>>

\* addComment from the answer of /api/comments/create on: fetch rejects on
\* a network error only; loadComments reads appState.activeVersionId anew
addCommentDone(req, status) ==
  /\ Vanilla
  /\ req \in net /\ req.op = "addComment"
  /\ lastOp' = "addCommentDone"
  /\ IF status = 0
     THEN /\ alertMsg' = <<"Failed to add comment">>
          /\ net' = net \ {req}
          /\ UNCHANGED ui
     ELSE /\ ui' = [ui EXCEPT !.newCommentText = "",
                              !.commentsFor = IF appState.activeVersionId = Null
                                              THEN Null ELSE @]
          /\ net' = (net \ {req}) \cup
                      (IF appState.activeVersionId = Null THEN {}
                       ELSE {Req("addComment.loadComments", "/api/comments/list",
                                 {}, appState.activeVersionId, Null)})
          /\ alertMsg' = <<>>
  /\ UNCHANGED <<reactVars, hist, bootLog, client, location, currentUser, appState, userSubscription,
                 premium_status>>

\* ------------------------------------------------------------------------
\* Vanilla client: cases.js
\* ------------------------------------------------------------------------
\* selectCase up to its await of fetchCase
selectCaseReqs(caseId) ==
  {Req("selectCase", "/api/cases/get", {currentUser}, Null, caseId)}

selectCase(caseId) ==
  /\ Vanilla /\ MaySend
  /\ currentUser # Null
  /\ caseId \in {appState.cases[i] : i \in 1..Len(appState.cases)}
  /\ net' = net \cup selectCaseReqs(caseId)
  /\ lastOp' = "selectCase"
  /\ UNCHANGED <<reactVars, hist, bootLog, client, location, currentUser, appState,
                 userSubscription, premium_status, ui>>
  /\ alertMsg' = <<>>

\* selectCase from the answer of /api/cases/get on; first: data.versions[0]
selectCaseFetched(req, status, first) ==
  /\ Vanilla
  /\ req \in net /\ req.op = "selectCase"
  /\ first \in LatestVersions(req.cid)
  /\ lastOp' = "selectCaseFetched"
  /\ IF status # 200
     THEN /\ net' = net \ {req}
          /\ UNCHANGED <<appState, ui>>
     ELSE /\ appState' = [appState EXCEPT !.activeCaseId = req.cid]
          /\ ui' = clearResults(ui)
          /\ net' = (net \ {req})
                    \cup {Req("loadTeamMembers", "/api/team/members",
                              {currentUser}, Null, req.cid)}
                    \cup (IF first = Null THEN {}
                          ELSE {Req("selectVersion", "/api/versions/get",
                                    {currentUser}, first, Null)})
  /\ hist' = IF status = 200 /\ first # Null
             THEN [hist EXCEPT !.lastSelected = first] ELSE hist
  /\ UNCHANGED <<reactVars, bootLog, client, location, currentUser,
                 userSubscription, premium_status>>
  /\ alertMsg' = <<>>

loadTeamMembersDone(req, status) ==
  /\ Vanilla
  /\ req \in net /\ req.op = "loadTeamMembers"
  /\ net' = net \ {req}
  /\ ui' = [ui EXCEPT !.teamFor = IF status = 0 THEN "error" ELSE req.cid]
  /\ lastOp' = "loadTeamMembersDone"
  /\ UNCHANGED <<reactVars, hist, bootLog, client, location, currentUser, appState,
                 userSubscription, premium_status>>
  /\ alertMsg' = <<>>

\* ------------------------------------------------------------------------
\* Vanilla client: auth.js bootstrap and the auth-ready listeners
\* ------------------------------------------------------------------------
\* the page leaves for /login: its scripts, requests and timers are gone;
\* the variables hold what the next load of /app starts from
LeavePage ==
  /\ location' = "/login"
  /\ currentUser' = Null
  /\ appState' = FreshAppState
  /\ ui' = FreshUi
  /\ net' = {}
  /\ alertMsg' = <<>>
  /\ bootLog' = <<>>

\* the two auth-ready listeners (app.js and premium.js), run synchronously
\* by dispatchEvent up to their first await: each one calls checkSubscription
\* only when it finds window.currentUser (cu) set, and checkSubscription
\* itself returns at once without it
AuthReadyListeners == {"app.js", "premium.js"}
authReadyRequests(cu) ==
  IF cu = Null THEN {}
  ELSE {[Req("checkSubscription", "/api/subscription/check", {cu}, Null, Null)
           EXCEPT !.by = l] : l \in AuthReadyListeners}
authReadyLog(cu) ==
  IF cu = Null THEN <<>> ELSE <<"checkSubscription", "checkSubscription">>

\* the callback as it would run with the dispatch moved before the
\* assignment of window.currentUser
authStateChangedDispatchFirst(user) ==
  /\ Vanilla
  /\ bootLog = <<>>
  /\ lastOp' = "authStateChanged"
  /\ IF user = Null
     THEN /\ LeavePage
          /\ UNCHANGED userSubscription
     ELSE /\ currentUser' = user
          /\ net' = net
               \cup authReadyRequests(currentUser)
               \cup {Req("initAuth.initUser", "/api/user/init", {user}, Null, Null)}
          /\ bootLog' = <<"auth-ready">> \o authReadyLog(currentUser)
                          \o <<"currentUser", "initUser">>
          /\ alertMsg' = <<>>
          /\ UNCHANGED <<location, appState, userSubscription, ui>>
  /\ UNCHANGED <<reactVars, hist, client, premium_status>>

\* the onAuthStateChanged callback of initAuth, up to its await of initUser
authStateChanged(user) ==
  /\ Vanilla
  /\ bootLog = <<>>
  /\ lastOp' = "authStateChanged"
  /\ IF user = Null
     THEN /\ LeavePage
          /\ UNCHANGED userSubscription
     ELSE /\ currentUser' = user
          /\ net' = net
               \cup authReadyRequests(user)
               \cup {Req("initAuth.initUser", "/api/user/init", {user}, Null, Null)}
          /\ bootLog' = <<"currentUser", "auth-ready">> \o authReadyLog(user)
                          \o <<"initUser">>
          /\ alertMsg' = <<>>
          /\ UNCHANGED <<location, appState, userSubscription, ui>>
  /\ UNCHANGED <<reactVars, hist, client, premium_status>>

\* initUser swallows every failure; then checkApiKeyStatus starts
initUserDone(req, status) ==
  /\ Vanilla
  /\ req \in net /\ req.op = "initAuth.initUser"
  /\ net' = (net \ {req}) \cup
              {Req("initAuth.checkApiKeyStatus", "/api/user/api-key/status",
                   {currentUser}, Null, Null)}
  /\ bootLog' = bootLog \o <<"initUser.done", "checkApiKeyStatus">>
  /\ lastOp' = "initUserDone"
  /\ UNCHANGED <<reactVars, hist, client, location, currentUser, appState,
                 userSubscription, premium_status, ui>>
  /\ alertMsg' = <<>>

\* checkApiKeyStatus ends (has: data.has_api_key); then loadCases starts
checkApiKeyStatusDone(req, status, has) ==
  /\ Vanilla
  /\ req \in net /\ req.op = "initAuth.checkApiKeyStatus"
  /\ appState' = IF status = 0 THEN appState
                 ELSE [appState EXCEPT !.hasApiKey = (status = 200 /\ has)]
  /\ net' = (net \ {req}) \cup
              {Req("initAuth.loadCases", "/api/cases/list", {currentUser},
                   Null, Null)}
  /\ bootLog' = bootLog \o <<"checkApiKeyStatus.done", "loadCases">>
  /\ lastOp' = "checkApiKeyStatusDone"
  /\ UNCHANGED <<reactVars, hist, client, location, currentUser, userSubscription,
                 premium_status, ui>>
  /\ alertMsg' = <<>>

\* loadCases ends: a network error rejects the callback; otherwise the
\* first case is selected when none is active, premium-ready is dispatched
\* (no module listens to it) and the notification fetch is scheduled
initAuthCasesLoaded(req, status) ==
  /\ Vanilla
  /\ req \in net /\ req.op = "initAuth.loadCases"
  /\ lastOp' = "initAuthCasesLoaded"
  /\ IF status = 0
     THEN /\ net' = net \ {req}
          /\ bootLog' = bootLog \o <<"loadCases.failed">>
          /\ UNCHANGED <<appState, ui>>
     ELSE LET cases == IF status = 200 THEN ServerCases ELSE <<>>
          IN  /\ appState' = [appState EXCEPT !.cases = cases]
              /\ net' = (net \ {req}) \cup
                          (IF Len(cases) > 0 /\ appState.activeCaseId = Null
                           THEN selectCaseReqs(cases[1]) ELSE {})
              /\ bootLog' = bootLog \o <<"loadCases.done", "premium-ready">>
              /\ ui' = [ui EXCEPT !.timers = @ \cup {"loadNotifications"}]
  /\ UNCHANGED <<reactVars, hist, client, location, currentUser, userSubscription,
                 premium_status>>
  /\ alertMsg' = <<>>

\* the setTimeout(loadNotifications, 500): both list requests go out
loadNotifications ==
  /\ Vanilla
  /\ "loadNotifications" \in ui.timers
  /\ currentUser # Null
  /\ ui' = [ui EXCEPT !.timers = @ \ {"loadNotifications"}]
  /\ net' = net \cup
              {Req("loadNotifications", u, {currentUser}, Null, Null)
               : u \in {"/api/notifications/list", "/api/invitations/pending"}}
  /\ bootLog' = bootLog \o <<"loadNotifications">>
  /\ lastOp' = "loadNotifications"
  /\ UNCHANGED <<reactVars, hist, client, location, currentUser, appState,
                 userSubscription, premium_status>>
  /\ alertMsg' = <<>>

loadNotificationsDone(req, status) ==
  /\ Vanilla
  /\ req \in net /\ req.op = "loadNotifications"
  /\ net' = net \ {req}
  /\ lastOp' = "loadNotificationsDone"
  /\ UNCHANGED <<reactVars, hist, bootLog, client, location, currentUser, appState,
                 userSubscription, premium_status, ui>>
  /\ alertMsg' = <<>>

\* a logout that removed the cached subscription as well
logoutClearingCache ==
  /\ Vanilla
  /\ currentUser # Null
  /\ LeavePage
  /\ premium_status' = {}
  /\ lastOp' = "logout"
  /\ UNCHANGED <<reactVars, hist, client, userSubscription>>

\* logout of auth.js: firebaseSignOut, then /login
logout ==
  /\ Vanilla
  /\ currentUser # Null
  /\ LeavePage
  /\ lastOp' = "logout"
  /\ UNCHANGED <<reactVars, hist, client, userSubscription, premium_status>>

\* login.js: signed in, the browser loads /app and its modules initialise
loadApp ==
  /\ client = "vanilla" /\ location = "/login"
  /\ location' = "/app"
  /\ userSubscription' = FreshUserSubscription(premium_status)
  /\ ui' = [FreshUi EXCEPT !.timers = IF premium_status = {} THEN {}
                                      ELSE {"updatePremiumUI"}]
  /\ lastOp' = "loadApp"
  /\ UNCHANGED <<reactVars, hist, bootLog, client, currentUser, appState,
                 premium_status, net>>
  /\ alertMsg' = <<>>


\* ------------------------------------------------------------------------
\* Vanilla client: premium.js upgradeToPro
\* ------------------------------------------------------------------------
\* upgradeToPro up to its await of fetch("/api/payments/create-order")
upgradeToPro ==
  /\ Vanilla /\ MaySend
  /\ ui.pricingModalDisplay = "flex"
  /\ lastOp' = "upgradeToPro"
  /\ IF currentUser = Null
     THEN /\ alertMsg' = <<"Please sign in first">>
          /\ UNCHANGED net
     ELSE /\ net' = net \cup {Req("upgradeToPro", "/api/payments/create-order",
                                  {currentUser}, Null, Null)}
          /\ alertMsg' = <<>>
  /\ UNCHANGED <<reactVars, hist, bootLog, client, location, currentUser,
                 appState, userSubscription, premium_status, ui>>

\* upgradeToPro from the answer of create-order on: the Razorpay checkout
\* opens; a rejected fetch ends the function
upgradeToProOrdered(req, status, order_id) ==
  /\ Vanilla
  /\ req \in net /\ req.op = "upgradeToPro"
  /\ lastOp' = "upgradeToProOrdered"
  /\ net' = net \ {req}
  /\ ui' = IF status = 200
           THEN [ui EXCEPT !.timers = @ \cup {"razorpay"},
                           !.checkoutOrder = order_id]
           ELSE ui
  /\ alertMsg' = IF status \in {0, 200} THEN <<>>
                 ELSE <<"Failed to initiate payment. Try again later.">>
  /\ UNCHANGED <<reactVars, hist, bootLog, client, location, currentUser,
                 appState, userSubscription, premium_status>>

\* a click on #upgradeToPremiumLink
openPricingModal ==
  /\ Vanilla
  /\ ui.pricingModalDisplay = "none"
  /\ ui' = [ui EXCEPT !.pricingModalDisplay = "flex"]
  /\ lastOp' = "openPricingModal"
  /\ alertMsg' = <<>>
  /\ UNCHANGED <<reactVars, hist, bootLog, client, location, currentUser,
                 appState, userSubscription, premium_status, net>>

\* the user closes the checkout without paying, or the payment fails: the
\* options of upgradeToPro hold no callback for either
razorpayClosed ==
  /\ Vanilla
  /\ "razorpay" \in ui.timers
  /\ ui' = [ui EXCEPT !.timers = @ \ {"razorpay"}]
  /\ lastOp' = "razorpayClosed"
  /\ alertMsg' = <<>>
  /\ UNCHANGED <<reactVars, hist, bootLog, client, location, currentUser,
                 appState, userSubscription, premium_status, net>>

\* the user paid: options.handler up to its await of fetch(verify)
razorpayHandler ==
  /\ Vanilla
  /\ "razorpay" \in ui.timers
  /\ currentUser # Null
  /\ lastOp' = "razorpayHandler"
  /\ ui' = [ui EXCEPT !.timers = @ \ {"razorpay"}]
  /\ net' = net \cup {Req("razorpayHandler", "/api/payments/verify",
                          {currentUser}, Null, Null)}
  /\ alertMsg' = <<>>
  /\ UNCHANGED <<reactVars, hist, bootLog, client, location, currentUser,
                 appState, userSubscription, premium_status>>

\* options.handler from the answer of verify up to its await of
\* checkSubscription; success: data.success of the body
razorpayVerified(req, status, success) ==
  /\ Vanilla
  /\ req \in net /\ req.op = "razorpayHandler"
  /\ lastOp' = "razorpayVerified"
  /\ IF status = 0
     THEN /\ net' = net \ {req}
          /\ alertMsg' = <<>>
          /\ UNCHANGED ui
     ELSE IF status = 200 /\ success
     THEN /\ alertMsg' = <<"Payment successful! Pro unlocked.">>
          /\ net' = (net \ {req}) \cup checkSubscriptionReqs("upgradeToPro")
          /\ ui' = IF currentUser = Null
                   THEN [ui EXCEPT !.pricingModalDisplay = "none"] ELSE ui
     ELSE /\ alertMsg' = <<"Payment verification failed. Contact support.">>
          /\ net' = net \ {req}
          /\ UNCHANGED ui
  /\ UNCHANGED <<reactVars, hist, bootLog, client, location, currentUser,
                 appState, userSubscription, premium_status>>

\* ------------------------------------------------------------------------
\* React client: component state and services/api.js
\* ------------------------------------------------------------------------
React == client = "react" /\ location = "/app"

vanillaVars == <<currentUser, appState, userSubscription, ui, bootLog>>

\* useState initialisers of AuthProvider, PremiumProvider, Dashboard and
\* ResultsPanel
FreshReact(cache) ==
  [ currentUser     |-> Null,
    subscription    |-> FreshUserSubscription(cache),
    activeCase      |-> Null,
    versions        |-> Null,        \* case whose versions the sidebar lists
    teamMembers     |-> Null,        \* case whose team members are shown
    selectedVersion |-> Null,        \* version_id of the version object
    comments        |-> Null,        \* whose comments the list shows
    activeTab       |-> "summary",
    newComment      |-> "",
    pricingOpen     |-> FALSE,
    paymentLoading  |-> FALSE,       \* PricingModal
    scriptWait      |-> {},          \* order handleUpgrade loads Razorpay for
    checkout        |-> {},          \* order_id of the open Razorpay checkout
    authError       |-> FALSE ]

\* ResultsPanel: isDeepDive of the version object the Dashboard holds for
\* version_id v (the answer of fetchVersion)
isDeepDive(v) ==
  IF v = Null THEN FALSE
  ELSE \E a \in ServerVersion(v).analysis_response :
          \/ a.is_deep_dive
          \/ a.deep_dive_metrics
          \/ \E d \in a.visualization_data : d # {}

TabIds == {"summary", "diff", "insights", "metrics", "visualizations",
           "snapshot"}

\* the tab buttons ResultsPanel shows
tabs(r) ==
  {"summary", "diff", "insights", "metrics", "snapshot"} \cup
    (IF isDeepDive(r.selectedVersion) /\ r.subscription.is_premium
     THEN {"visualizations"} ELSE {})

\* what renderTabContent returns for the active tab
renderTabContent(activeTab, deep, isPremium) ==
  IF activeTab = "visualizations"
  THEN IF deep /\ isPremium THEN "Visualizations" ELSE "null"
  ELSE IF activeTab \in {"diff", "insights", "metrics", "snapshot"}
  THEN activeTab
  ELSE "summary"

\* the effect without its fallback
visualizationsStay(r) == r

\* the effect of ResultsPanel on [isDeepDive, isPremium, activeTab], run
\* after the render that follows a state update
visualizationsFallback(r) ==
  IF r.activeTab = "visualizations"
     /\ (~isDeepDive(r.selectedVersion) \/ ~r.subscription.is_premium)
  THEN [r EXCEPT !.activeTab = "summary"]
  ELSE r

\* the Dashboard route mounts anew; the providers above the router stay
MountDashboard(r, user) ==
  [FreshReact({}) EXCEPT !.currentUser = user, !.subscription = r.subscription]

\* authService.getAuthToken: null without a Firebase user, else the ID
\* token, unless getIdToken throws
Tokens == IF authUser = Null THEN {"null"} ELSE {"token", "throws"}

\* api.interceptors.request: a JSON body without user_id gets the one of
\* localStorage, when there is one
requestInterceptor(req) ==
  [req EXCEPT !.user_id = IF @ = {} THEN user_id ELSE @]

apiPost(op, url, uid, vid, cid) == requestInterceptor(Req(op, url, uid, vid, cid))

AccessDenied == "Access denied. You do not have permission to perform this action."
ServerError == "Server error. Please try again later."

\* a response interceptor that did not look at originalRequest._retry
responseOutcomeRetryAlways(req, status, tok, signOutOk) ==
  IF status = 200 THEN "fulfilled"
  ELSE IF status = 401
  THEN IF tok = "token" THEN "retried"
       ELSE IF signOutOk THEN "redirected" ELSE "signOutFailed"
  ELSE "rejected"

\* api.interceptors.response: what becomes of the request's promise
responseOutcome(req, status, tok, signOutOk) ==
  IF status = 200 THEN "fulfilled"
  ELSE IF status = 401 /\ ~req.retry
  THEN IF tok = "token" THEN "retried"
       ELSE IF signOutOk THEN "redirected" ELSE "signOutFailed"
  ELSE "rejected"

\* an error handler without the branch for status 403
interceptorAlertsServerOnly(status, outcome) ==
  IF outcome \in {"fulfilled", "retried", "signOutFailed"} THEN <<>>
  ELSE IF status >= 500 THEN <<ServerError>>
  ELSE <<>>

\* the alerts of the error handler
interceptorAlerts(status, outcome) ==
  IF outcome \in {"fulfilled", "retried", "signOutFailed"} THEN <<>>
  ELSE IF status = 403 THEN <<AccessDenied>>
  ELSE IF status >= 500 THEN <<ServerError>>
  ELSE <<>>

\* return api(originalRequest): the request goes out once more
resend(req) == requestInterceptor([req EXCEPT !.retry = TRUE, !.sent = @ + 1])

\* localStorage premium_status after the interceptor (signOut removes it)
cacheAfter(outcome) == IF outcome = "redirected" THEN {} ELSE premium_status

\* window.location.href = "/login" loads the page anew
reactAfter(outcome, r, cache) ==
  IF outcome = "redirected" THEN FreshReact(cache)
  ELSE visualizationsFallback(r)

netAfter(outcome, req, new) ==
  IF outcome = "redirected" THEN {}
  ELSE IF outcome = "retried" THEN (net \ {req}) \cup {resend(req)}
  ELSE (net \ {req}) \cup new

\* a response arrives and passes the response interceptor: what every
\* caller's continuation shares
axiosSettled(req, status, tok, signOutOk) ==
  /\ client = "react"
  /\ req \in net
  /\ LET asked == status = 401 /\ ~req.retry
         o == responseOutcome(req, status, tok, signOutOk)
     IN  /\ asked => tok \in Tokens
         /\ hist' = [hist EXCEPT
                       !.answered = TRUE,
                       !.tabBefore = react.activeTab,
                       !.lastCase = IF req.op = "loadCaseDetails"
                                       /\ o = "fulfilled"
                                    THEN req.cid ELSE @,
                       !.status = status, !.retry = req.retry,
                       !.tok = IF asked THEN tok ELSE "unused",
                       !.signOutOk = IF asked /\ tok # "token" THEN signOutOk
                                     ELSE TRUE]
         /\ authUser' = IF o = "redirected" THEN Null ELSE authUser
         /\ auth_token' = IF o = "redirected" THEN {} ELSE auth_token
         /\ location' = IF o = "redirected" THEN "/login" ELSE location
  /\ UNCHANGED <<client, user_id, vanillaVars>>

\* the continuation of a Dashboard handler: try { await api; setState }
\* catch { console.error }
settled(req, status, tok, signOutOk, okReact, okReqs, failAlerts, okOp, failOp) ==
  /\ axiosSettled(req, status, tok, signOutOk)
  /\ LET o == responseOutcome(req, status, tok, signOutOk)
     IN  /\ premium_status' = cacheAfter(o)
         /\ react' = reactAfter(o, IF o = "fulfilled" THEN okReact ELSE react,
                                cacheAfter(o))
         /\ net' = netAfter(o, req, IF o = "fulfilled" THEN okReqs ELSE {})
         /\ alertMsg' = interceptorAlerts(status, o) \o
                          (IF o \in {"fulfilled", "retried"} THEN <<>>
                           ELSE failAlerts)
         /\ lastOp' = IF o = "fulfilled" THEN okOp
                      ELSE IF o = "retried" THEN "axios.retry" ELSE failOp

\* ------------------------------------------------------------------------
\* React client: PremiumContext and PricingModal
\* ------------------------------------------------------------------------
DefaultDeepDives == 5

\* what apiService.checkSubscription resolves with: the body normalised,
\* or the free default from its .catch
apiCheckResult(outcome, data) ==
  IF outcome = "fulfilled"
  THEN Subscription(data.tier, data.tier = "pro", data.deep_dives_remaining)
  ELSE FreeSub

\* newSubscription of PremiumProvider.checkSubscription
newSubscription(data) ==
  LET isPro == data.tier = "pro" \/ data.is_premium
  IN  Subscription(IF isPro THEN "pro" ELSE "free", isPro,
                   data.deep_dives_remaining)

\* updateSubscription(newData): a missing or zero count becomes the default
updateSubscription(data) ==
  LET isPro == data.tier = "pro" \/ data.is_premium
  IN  Subscription(IF isPro THEN "pro" ELSE "free", isPro,
                   IF data.deep_dives_remaining = 0 THEN DefaultDeepDives
                   ELSE data.deep_dives_remaining)

\* what the caller that awaited checkSubscription() does with its result
afterCheck(r, new, by) ==
  IF by = "handleDeepDive" /\ ~new.is_premium THEN [r EXCEPT !.pricingOpen = TRUE]
  ELSE IF by = "handleDemoUpgrade" THEN [r EXCEPT !.pricingOpen = FALSE]
  ELSE IF by = "handleUpgrade"
  THEN [r EXCEPT !.pricingOpen = FALSE, !.paymentLoading = FALSE]
  ELSE r

\* the checks of SetupPanel.handleDeepDive on its fresh status: when they
\* pass it calls onDeepDive, which is handleDeepDive of Dashboard
passesSetup(new, by) ==
  by = "SetupPanel.handleDeepDive" /\ new.is_premium
    /\ new.deep_dives_remaining > 0

goesDeepUnchecked(r, new, by) ==
  by = "handleDeepDive" /\ new.is_premium

goesDeep(r, new, by) ==
  by = "handleDeepDive" /\ new.is_premium /\ new.deep_dives_remaining > 0

checkAlerts(new, by) ==
  IF by = "handleDeepDive" /\ new.is_premium /\ new.deep_dives_remaining <= 0
  THEN <<"No deep dives remaining this month">>
  ELSE IF by = "SetupPanel.handleDeepDive" /\ ~new.is_premium
  THEN <<"You need to upgrade to Pro to use Deep Dive.">>
  ELSE IF by = "SetupPanel.handleDeepDive" /\ new.deep_dives_remaining <= 0
  THEN <<"No deep dives remaining for this month.">>
  ELSE <<>>

\* handleDeepDive of Dashboard, called by SetupPanel without a stored user
\* id: its own checkSubscription resolves at once with the free default
dashboardAtOnce(new, by) == passesSetup(new, by) /\ user_id = {}

\* the callers in PricingModal, which end with onClose() and onUpgrade(),
\* the checkSubscription of Dashboard
UpgradeCallers == {"handleDemoUpgrade", "handleUpgrade"}

checked(new, by) ==
  IF dashboardAtOnce(new, by) \/ (by \in UpgradeCallers /\ user_id = {})
  THEN newSubscription(FreeSub) ELSE new

checker(new, by) == IF dashboardAtOnce(new, by) THEN "handleDeepDive" ELSE by

\* the requests that follow a check: the check of Dashboard.handleDeepDive
\* after the one of SetupPanel, and /api/deep-dive after the one of
\* Dashboard (currentUser.uid throws when signed out)
checkReqs(r, new, by) ==
  IF passesSetup(new, by)
  THEN {[apiPost("checkSubscription", "/api/subscription/check", user_id,
                 Null, Null) EXCEPT !.by = "handleDeepDive"]}
  ELSE IF goesDeep(r, new, by) /\ r.currentUser # Null
  THEN {apiPost("handleDeepDive.runDeepDive", "/api/deep-dive", user_id,
                Null, r.activeCase)}
  ELSE IF by \in UpgradeCallers /\ user_id # {}
  THEN {[apiPost("checkSubscription", "/api/subscription/check", user_id,
                 Null, Null) EXCEPT !.by = "onUpgrade"]}
  ELSE {}

\* PremiumProvider.checkSubscription up to its await, for the caller by;
\* without a stored user id apiService resolves at once with the free default
checkSubscriptionCall(by) ==
  /\ client = "react" /\ MaySend
  /\ IF user_id = {}
     THEN LET new == newSubscription(FreeSub)
          IN  /\ react' = visualizationsFallback(
                          afterCheck([react EXCEPT !.subscription = new],
                                     new, by))
              /\ premium_status' = {new}
              /\ lastOp' = "PremiumProvider.checkSubscription.noUser"
              /\ alertMsg' = checkAlerts(new, by)
              /\ UNCHANGED net
     ELSE /\ UNCHANGED react
          /\ net' = net \cup
                      {[apiPost("checkSubscription", "/api/subscription/check",
                                user_id, Null, Null) EXCEPT !.by = by]}
          /\ lastOp' = by
          /\ alertMsg' = <<>>
          /\ UNCHANGED premium_status
  /\ hist' = noAnswer(hist)
  /\ UNCHANGED <<client, location, authUser, user_id, auth_token, vanillaVars>>

\* the useEffect of PremiumProvider and of Dashboard
PremiumProvider_checkSubscription == checkSubscriptionCall("useEffect")

\* a click on the Deep Dive button of SetupPanel, which is rendered for a
\* premium subscription and enabled with an active case and dives left:
\* handleDeepDive of SetupPanel up to its await of checkSubscription
SetupPanel_handleDeepDive ==
  /\ React
  /\ react.subscription.is_premium
  /\ react.activeCase # Null
  /\ react.subscription.deep_dives_remaining > 0
  /\ checkSubscriptionCall("SetupPanel.handleDeepDive")

\* PremiumProvider.checkSubscription from the answer on, and then the
\* caller that awaited it
checkSubscriptionSettled(req, status, tok, signOutOk, data) ==
  /\ axiosSettled(req, status, tok, signOutOk)
  /\ req.op = "checkSubscription"
  /\ LET o == responseOutcome(req, status, tok, signOutOk)
         new == newSubscription(apiCheckResult(o, data))
     IN  IF o = "retried"
         THEN /\ net' = netAfter(o, req, {})
              /\ lastOp' = "axios.retry"
              /\ alertMsg' = <<>>
              /\ UNCHANGED <<react, premium_status>>
         ELSE /\ premium_status' = {checked(new, req.by)}
              /\ react' = reactAfter(o,
                            afterCheck([react EXCEPT
                                          !.subscription = checked(new, req.by)],
                                       checked(new, req.by),
                                       checker(new, req.by)),
                            {checked(new, req.by)})
              /\ net' = netAfter(o, req,
                                 IF dashboardAtOnce(new, req.by) THEN {}
                                 ELSE checkReqs(react, new, req.by))
              /\ alertMsg' = interceptorAlerts(status, o) \o
                               checkAlerts(checked(new, req.by),
                                           checker(new, req.by))
              /\ lastOp' = IF o = "fulfilled"
                           THEN "PremiumProvider.checkSubscription.ok"
                           ELSE "PremiumProvider.checkSubscription.failed"

\* handleDemoUpgrade of PricingModal up to its await
handleDemoUpgrade ==
  /\ React /\ MaySend
  /\ react.pricingOpen
  /\ lastOp' = "handleDemoUpgrade"
  /\ IF user_id = {}
     THEN /\ alertMsg' = <<"Demo upgrade failed: User not logged in">>
          /\ UNCHANGED net
     ELSE /\ net' = net \cup {apiPost("handleDemoUpgrade",
                                      "/api/subscription/upgrade", user_id,
                                      Null, Null)}
          /\ alertMsg' = <<>>
  /\ hist' = noAnswer(hist)
  /\ UNCHANGED <<client, location, premium_status, reactVars, vanillaVars>>

\* handleDemoUpgrade from the answer on: updateSubscription, the alert, and
\* checkSubscription up to its await; left: deep_dives_remaining of the body
handleDemoUpgradeDone(req, status, tok, signOutOk, left) ==
  /\ axiosSettled(req, status, tok, signOutOk)
  /\ req.op = "handleDemoUpgrade"
  /\ LET o == responseOutcome(req, status, tok, signOutOk)
         updated == updateSubscription(Subscription("pro", TRUE, left))
         free == newSubscription(FreeSub)
     IN  IF o = "fulfilled"
         THEN /\ alertMsg' = <<"Demo upgrade successful! Pro features unlocked.">>
              /\ lastOp' = "handleDemoUpgrade.ok"
              /\ IF user_id = {}
                 THEN /\ premium_status' = {free}
                      /\ react' = visualizationsFallback(
                                  [react EXCEPT !.subscription = free,
                                                !.pricingOpen = FALSE])
                      /\ net' = net \ {req}
                 ELSE /\ premium_status' = {updated}
                      /\ react' = visualizationsFallback(
                                  [react EXCEPT !.subscription = updated])
                      /\ net' = (net \ {req}) \cup
                                  {[apiPost("checkSubscription",
                                            "/api/subscription/check", user_id,
                                            Null, Null)
                                    EXCEPT !.by = "handleDemoUpgrade"]}
         ELSE /\ premium_status' = cacheAfter(o)
              /\ react' = reactAfter(o, react, cacheAfter(o))
              /\ net' = netAfter(o, req, {})
              /\ alertMsg' = interceptorAlerts(status, o) \o
                               (IF o = "retried" THEN <<>>
                                ELSE <<"Demo upgrade failed">>)
              /\ lastOp' = IF o = "retried" THEN "axios.retry"
                           ELSE "handleDemoUpgrade.failed"

\* handleUpgrade of PricingModal up to its await of createOrder, which
\* rejects without a stored user id
handleUpgrade ==
  /\ React /\ MaySend
  /\ react.pricingOpen /\ ~react.paymentLoading
  /\ lastOp' = "handleUpgrade"
  /\ IF user_id = {}
     THEN /\ alertMsg' = <<"Failed to initiate payment: User not logged in">>
          /\ UNCHANGED <<net, react>>
     ELSE /\ net' = net \cup {apiPost("handleUpgrade",
                                      "/api/payments/create-order", user_id,
                                      Null, Null)}
          /\ react' = [react EXCEPT !.paymentLoading = TRUE]
          /\ alertMsg' = <<>>
  /\ hist' = noAnswer(hist)
  /\ UNCHANGED <<client, location, premium_status, authUser, user_id,
                 auth_token, vanillaVars>>

\* handleUpgrade from the answer of createOrder up to its await of
\* loadRazorpayScript; order_id: the one of the body
handleUpgradeOrdered(req, status, tok, signOutOk, order_id) ==
  /\ axiosSettled(req, status, tok, signOutOk)
  /\ req.op = "handleUpgrade"
  /\ LET o == responseOutcome(req, status, tok, signOutOk)
         stopped == [react EXCEPT !.paymentLoading = FALSE]
     IN  /\ premium_status' = cacheAfter(o)
         /\ net' = netAfter(o, req, {})
         /\ IF o = "retried"
            THEN /\ react' = react
                 /\ alertMsg' = <<>>
                 /\ lastOp' = "axios.retry"
            ELSE IF o = "fulfilled" /\ order_id # Null
            THEN /\ react' = [react EXCEPT !.scriptWait = {order_id}]
                 /\ alertMsg' = <<>>
                 /\ lastOp' = "handleUpgradeOrdered"
            ELSE /\ react' = reactAfter(o, stopped, cacheAfter(o))
                 /\ alertMsg' = interceptorAlerts(status, o) \o
                                  <<"Failed to initiate payment">>
                 /\ lastOp' = "handleUpgrade.failed"

\* handleUpgrade from the end of loadRazorpayScript on: the checkout opens
\* when the script has given window.Razorpay
handleUpgradeScriptSettled(loaded) ==
  /\ React
  /\ react.scriptWait # {}
  /\ IF loaded
     THEN /\ react' = [react EXCEPT !.scriptWait = {}, !.checkout = react.scriptWait]
          /\ alertMsg' = <<>>
          /\ lastOp' = "rzp.open"
     ELSE /\ react' = [react EXCEPT !.scriptWait = {}, !.paymentLoading = FALSE]
          /\ alertMsg' = <<"Failed to initiate payment">>
          /\ lastOp' = "handleUpgrade.failed"
  /\ hist' = noAnswer(hist)
  /\ UNCHANGED <<client, location, premium_status, authUser, user_id,
                 auth_token, net, vanillaVars>>

\* modal.ondismiss of the checkout
ondismiss ==
  /\ React
  /\ react.checkout # {}
  /\ react' = [react EXCEPT !.checkout = {}, !.paymentLoading = FALSE]
  /\ alertMsg' = <<>>
  /\ lastOp' = "ondismiss"
  /\ hist' = noAnswer(hist)
  /\ UNCHANGED <<client, location, premium_status, authUser, user_id,
                 auth_token, net, vanillaVars>>

\* rzp.on('payment.failed'): the checkout stays open for another attempt
paymentFailed ==
  /\ React
  /\ react.checkout # {}
  /\ react' = [react EXCEPT !.paymentLoading = FALSE]
  /\ alertMsg' = <<"Payment failed">>
  /\ lastOp' = "payment.failed"
  /\ hist' = noAnswer(hist)
  /\ UNCHANGED <<client, location, premium_status, authUser, user_id,
                 auth_token, net, vanillaVars>>

\* the user paid: options.handler of handleUpgrade up to its await of
\* verifyPayment, which rejects without a stored user id
paymentHandler ==
  /\ React /\ MaySend
  /\ react.checkout # {}
  /\ lastOp' = "paymentHandler"
  /\ IF user_id = {}
     THEN /\ alertMsg' = <<"Payment verification failed. Please contact support.">>
          /\ react' = [react EXCEPT !.checkout = {}, !.paymentLoading = FALSE]
          /\ UNCHANGED net
     ELSE /\ net' = net \cup {apiPost("paymentHandler", "/api/payments/verify",
                                      user_id, Null, Null)}
          /\ react' = [react EXCEPT !.checkout = {}]
          /\ alertMsg' = <<>>
  /\ hist' = noAnswer(hist)
  /\ UNCHANGED <<client, location, premium_status, authUser, user_id,
                 auth_token, vanillaVars>>

\* options.handler from the answer of verifyPayment on: updateSubscription,
\* the alert, and checkSubscription up to its await; success and left:
\* success and deep_dives_remaining of the body
paymentVerified(req, status, tok, signOutOk, success, left) ==
  /\ axiosSettled(req, status, tok, signOutOk)
  /\ req.op = "paymentHandler"
  /\ LET o == responseOutcome(req, status, tok, signOutOk)
         updated == updateSubscription(Subscription("pro", TRUE, left))
         free == newSubscription(FreeSub)
         stopped == [react EXCEPT !.paymentLoading = FALSE]
     IN  IF o = "fulfilled" /\ success
         THEN /\ alertMsg' = <<"Payment successful! Pro features are now unlocked.">>
              /\ lastOp' = "paymentVerified.ok"
              /\ IF user_id = {}
                 THEN /\ premium_status' = {free}
                      /\ react' = visualizationsFallback(
                                  [stopped EXCEPT !.subscription = free,
                                                  !.pricingOpen = FALSE])
                      /\ net' = net \ {req}
                 ELSE /\ premium_status' = {updated}
                      /\ react' = visualizationsFallback(
                                  [react EXCEPT !.subscription = updated])
                      /\ net' = (net \ {req}) \cup
                                  {[apiPost("checkSubscription",
                                            "/api/subscription/check", user_id,
                                            Null, Null)
                                    EXCEPT !.by = "handleUpgrade"]}
         ELSE /\ premium_status' = cacheAfter(o)
              /\ net' = netAfter(o, req, {})
              /\ react' = IF o = "retried" THEN react
                          ELSE reactAfter(o, stopped, cacheAfter(o))
              /\ alertMsg' = interceptorAlerts(status, o) \o
                               (IF o = "retried" THEN <<>>
                                ELSE <<"Payment verification failed. Please contact support.">>)
              /\ lastOp' = IF o = "retried" THEN "axios.retry"
                           ELSE "paymentVerified.failed"

\* ------------------------------------------------------------------------
\* React client: Dashboard and ResultsPanel
\* ------------------------------------------------------------------------
\* handleDeepDive from the answer of /api/deep-dive up to its await of
\* fetchCase
handleDeepDiveRan(req, status, tok, signOutOk) ==
  /\ req.op = "handleDeepDive.runDeepDive"
  /\ LET result == DeepDiveData(req.cid)
     IN  settled(req, status, tok, signOutOk,
                 react,
                 {apiPost("handleDeepDive.fetchCase", "/api/cases/get", user_id,
                          result.version_id, result.case_id)},
                 <<>>, "handleDeepDiveRan", "handleDeepDive.failed")

\* ... from the answer of fetchCase up to its await of fetchVersion
handleDeepDiveCaseFetched(req, status, tok, signOutOk) ==
  /\ req.op = "handleDeepDive.fetchCase"
  /\ settled(req, status, tok, signOutOk,
             [react EXCEPT !.versions = req.cid],
             {apiPost("handleDeepDive.fetchVersion", "/api/versions/get",
                      user_id, req.vid, Null)},
             <<>>, "handleDeepDiveCaseFetched", "handleDeepDive.failed")

\* setSelectedVersion, with the effect of ResultsPanel on a new version_id
setSelectedVersion(r, v) ==
  [r EXCEPT !.selectedVersion = v,
            !.activeTab = IF v # Null /\ v # r.selectedVersion THEN "summary"
                          ELSE @]

\* ... from the answer of fetchVersion up to its await of fetchComments
handleDeepDiveVersionFetched(req, status, tok, signOutOk) ==
  /\ req.op = "handleDeepDive.fetchVersion"
  /\ settled(req, status, tok, signOutOk,
             setSelectedVersion(react, req.vid),
             {apiPost("handleDeepDive.fetchComments", "/api/comments/list",
                      {}, req.vid, Null)},
             <<>>, "handleDeepDiveVersionFetched", "handleDeepDive.failed")

\* ... from the answer of fetchComments on: fetchCases and
\* checkSubscription start together
handleDeepDiveCommentsFetched(req, status, tok, signOutOk) ==
  /\ axiosSettled(req, status, tok, signOutOk)
  /\ req.op = "handleDeepDive.fetchComments"
  /\ LET o == responseOutcome(req, status, tok, signOutOk)
         free == newSubscription(FreeSub)
         r1 == [react EXCEPT !.comments = req.vid]
     IN  IF o = "fulfilled"
         THEN /\ alertMsg' = <<>>
              /\ lastOp' = "handleDeepDiveCommentsFetched"
              /\ IF user_id = {}
                 THEN /\ premium_status' = {free}
                      /\ react' = visualizationsFallback(
                                  [r1 EXCEPT !.subscription = free])
                      /\ net' = (net \ {req}) \cup
                                  {apiPost("fetchCases", "/api/cases/list",
                                           user_id, Null, Null)}
                 ELSE /\ UNCHANGED premium_status
                      /\ react' = r1
                      /\ net' = (net \ {req}) \cup
                                  {apiPost("fetchCases", "/api/cases/list",
                                           user_id, Null, Null),
                                   [apiPost("checkSubscription",
                                            "/api/subscription/check", user_id,
                                            Null, Null)
                                    EXCEPT !.by = "handleDeepDive.refresh"]}
         ELSE /\ premium_status' = cacheAfter(o)
              /\ react' = reactAfter(o, react, cacheAfter(o))
              /\ net' = netAfter(o, req, {})
              /\ alertMsg' = interceptorAlerts(status, o)
              /\ lastOp' = IF o = "retried" THEN "axios.retry"
                           ELSE "handleDeepDive.failed"

\* fetchCases().then(setCases)
fetchCasesDone(req, status, tok, signOutOk) ==
  /\ req.op = "fetchCases"
  /\ settled(req, status, tok, signOutOk, react, {}, <<>>,
             "fetchCasesDone", "fetchCases.failed")

\* handleSelectVersion up to its await of fetchVersion
handleSelectVersion(version_id) ==
  /\ React /\ MaySend
  /\ react.currentUser # Null
  /\ net' = net \cup {apiPost("handleSelectVersion", "/api/versions/get",
                              user_id, version_id, Null)}
  /\ hist' = [noAnswer(hist) EXCEPT !.lastSelected = version_id]
  /\ lastOp' = "handleSelectVersion"
  /\ alertMsg' = <<>>
  /\ UNCHANGED <<client, location, premium_status, reactVars, vanillaVars>>

\* handleSelectVersion from the answer of fetchVersion up to its await of
\* fetchComments
handleSelectVersionFetched(req, status, tok, signOutOk) ==
  /\ req.op = "handleSelectVersion"
  /\ settled(req, status, tok, signOutOk,
             setSelectedVersion(react, req.vid),
             {apiPost("handleSelectVersion.fetchComments", "/api/comments/list",
                      {}, req.vid, Null)},
             <<>>, "handleSelectVersionFetched.ok",
             "handleSelectVersionFetched.failed")

\* setComments after fetchComments, in handleSelectVersion and in
\* handleAddComment
fetchCommentsDone(req, status, tok, signOutOk) ==
  /\ req.op \in {"handleSelectVersion.fetchComments",
                 "handleAddComment.fetchComments",
                 "loadCaseDetails.fetchComments"}
  /\ settled(req, status, tok, signOutOk,
             [react EXCEPT !.comments = req.vid], {}, <<>>,
             "fetchCommentsDone", "fetchComments.failed")

\* onChange of the comment box, which renderSummary shows for a selected
\* version only
setNewComment(t) ==
  /\ React
  /\ react.selectedVersion # Null
  /\ t # react.newComment
  /\ react' = [react EXCEPT !.newComment = t]
  /\ lastOp' = "setNewComment"
  /\ alertMsg' = <<>>
  /\ hist' = noAnswer(hist)
  /\ UNCHANGED <<client, location, premium_status, authUser, user_id,
                 auth_token, net, vanillaVars>>

\* a click on a tab button of ResultsPanel, or on "View all comments" of
\* the summary, which opens the metrics
setActiveTab(tab) ==
  /\ React
  /\ tab # react.activeTab
  /\ \/ tab \in tabs(react)
     \/ tab = "metrics" /\ react.activeTab = "summary"
                        /\ react.selectedVersion # Null
                        /\ react.comments = react.selectedVersion
  /\ react' = visualizationsFallback([react EXCEPT !.activeTab = tab])
  /\ lastOp' = "setActiveTab"
  /\ alertMsg' = <<>>
  /\ hist' = noAnswer(hist)
  /\ UNCHANGED <<client, location, premium_status, authUser, user_id,
                 auth_token, net, vanillaVars>>

\* handleAddComment(text) up to its await: the requests it sends
handleAddComment(text) ==
  IF react.selectedVersion = Null \/ Trim(text) = "" THEN {}
  ELSE {apiPost("handleAddComment", "/api/comments/create", user_id,
                react.selectedVersion, CaseOf(react.selectedVersion))}

\* Enter in the comment box (or a click on Post): onAddComment and
\* setNewComment("") when the trimmed text is not empty
submitComment ==
  /\ React /\ MaySend
  /\ react.selectedVersion # Null
  /\ lastOp' = "submitComment"
  /\ IF Trim(react.newComment) = ""
     THEN UNCHANGED <<net, react>>
     ELSE /\ net' = net \cup handleAddComment(react.newComment)
          /\ react' = [react EXCEPT !.newComment = ""]
  /\ alertMsg' = <<>>
  /\ hist' = noAnswer(hist)
  /\ UNCHANGED <<client, location, premium_status, authUser, user_id,
                 auth_token, vanillaVars>>

\* handleAddComment from the answer of addComment up to its await of
\* fetchComments, for the version its closure holds
handleAddCommentDone(req, status, tok, signOutOk) ==
  /\ req.op = "handleAddComment"
  /\ settled(req, status, tok, signOutOk,
             react,
             {apiPost("handleAddComment.fetchComments", "/api/comments/list",
                      {}, req.vid, Null)},
             <<>>, "handleAddCommentDone", "handleAddComment.failed")

\* ------------------------------------------------------------------------
\* React client: AuthContext, services/auth.js, Login
\* ------------------------------------------------------------------------
\* logout of AuthProvider: authService.signOut, then setCurrentUser(null),
\* on which the effect of Dashboard navigates to /login; a failed
\* firebaseSignOut leaves everything but authError
AuthProvider_logout(signOutOk) ==
  /\ React
  /\ react.currentUser # Null
  /\ lastOp' = IF signOutOk THEN "authService.signOut" ELSE "logout.failed"
  /\ IF signOutOk
     THEN /\ authUser' = Null
          /\ auth_token' = {}
          /\ premium_status' = {}
          /\ react' = [react EXCEPT !.currentUser = Null]
          /\ location' = "/login"
     ELSE /\ react' = [react EXCEPT !.authError = TRUE]
          /\ UNCHANGED <<authUser, auth_token, premium_status, location>>
  /\ alertMsg' = <<>>
  /\ hist' = noAnswer(hist)
  /\ UNCHANGED <<client, user_id, net, vanillaVars>>

\* the listener of authService.onAuthStateChanged for a signed-out user
onAuthStateChanged ==
  /\ client = "react"
  /\ authUser = Null
  /\ user_id # {} \/ react.currentUser # Null
  /\ user_id' = {}
  /\ react' = [react EXCEPT !.currentUser = Null, !.authError = FALSE]
  /\ location' = "/login"
  /\ lastOp' = "onAuthStateChanged"
  /\ alertMsg' = <<>>
  /\ hist' = noAnswer(hist)
  /\ UNCHANGED <<client, premium_status, authUser, auth_token, net,
                 vanillaVars>>

\* handleGoogleSignIn of Login: the popup succeeds, the token and the user
\* are stored, the listener sets currentUser, and /app mounts
signInWithGoogle ==
  /\ client = "react" /\ location = "/login"
  /\ authUser' = Uid
  /\ auth_token' = {"token"}
  /\ user_id' = {Uid}
  /\ react' = MountDashboard(react, Uid)
  /\ location' = "/app"
  /\ lastOp' = "signInWithGoogle"
  /\ alertMsg' = <<>>
  /\ hist' = noAnswer(hist)
  /\ UNCHANGED <<client, premium_status, net, vanillaVars>>

\* ------------------------------------------------------------------------
\* Initial states
\* ------------------------------------------------------------------------
Caches == {{}} \cup {{c} : c \in SubscriptionData}
Responses == {200, 500, 0}      \* fetch: ok, not ok, rejected

\* the vanilla page /app right after its modules have loaded
InitVanilla ==
  /\ client = "vanilla"
  /\ location = "/app"
  /\ currentUser = Null
  /\ appState = FreshAppState
  /\ premium_status \in Caches
  /\ userSubscription = FreshUserSubscription(premium_status)
  /\ ui = [FreshUi EXCEPT !.timers = IF premium_status = {} THEN {}
                                     ELSE {"updatePremiumUI"}]
  /\ net = {}
  /\ alertMsg = <<>>
  /\ bootLog = <<>>
  /\ authUser = Null
  /\ user_id = {}
  /\ auth_token = {}
  /\ react = FreshReact({})
  /\ lastOp = "load"
  /\ hist = FreshHist

BootLogDone ==
  <<"currentUser", "auth-ready", "checkSubscription", "checkSubscription",
    "initUser", "initUser.done", "checkApiKeyStatus", "checkApiKeyStatus.done",
    "loadCases", "loadCases.done", "premium-ready", "loadNotifications">>

\* the vanilla page once the bootstrap has run: signed in, the cases listed,
\* the subscription checks answered (from the backend or from the cache),
\* no case selected yet
InitVanillaBooted ==
  /\ client = "vanilla"
  /\ location = "/app"
  /\ currentUser = Uid
  /\ appState = [FreshAppState EXCEPT !.cases = ServerCases]
  /\ premium_status \in Caches
  /\ userSubscription = FreshUserSubscription(premium_status)
  /\ ui = IF premium_status = {} THEN FreshUi
          ELSE updatePremiumUI(FreshUi, userSubscription)
  /\ net = {}
  /\ alertMsg = <<>>
  /\ bootLog = BootLogDone
  /\ authUser = Null
  /\ user_id = {}
  /\ auth_token = {}
  /\ react = FreshReact({})
  /\ lastOp = "load"
  /\ hist = FreshHist

\* the React page /app of a signed-in user with the active case c: mounted
\* and before its effects run (no case), or once loadInitialData has made
\* the first case, one without versions, the active one
InitReactAt(c) ==
  /\ client = "react"
  /\ location = "/app"
  /\ currentUser = Null
  /\ appState = FreshAppState
  /\ premium_status \in Caches
  /\ userSubscription = FreeSub
  /\ ui = FreshUi
  /\ net = {}
  /\ alertMsg = <<>>
  /\ bootLog = <<>>
  /\ authUser = Uid
  /\ user_id = {Uid}
  /\ auth_token = {"token"}
  /\ react = [FreshReact(premium_status) EXCEPT !.currentUser = Uid,
                                                !.activeCase = c]
  /\ lastOp = "load"
  /\ hist = FreshHist

InitReact == InitReactAt(Null)
InitReactLoaded == InitReactAt("c1")

\* ------------------------------------------------------------------------
\* Specifications
\* ------------------------------------------------------------------------
TokenResults == {"token", "null", "throws"}

\* what the backend and Firebase may answer to a request of the React
\* client: the status, and, where the interceptor asks for them, the
\* results of getAuthToken and of signOut
AxiosAnswers(req) ==
  {a \in [status : Statuses, tok : TokenResults, signOutOk : BOOLEAN] :
     IF a.status = 401 /\ ~req.retry
     THEN a.tok = "token" => a.signOutOk
     ELSE a.tok = "token" /\ a.signOutOk}

\* the bodies of a /api/subscription/check answer with a given status
Bodies(status) == IF status = 200 THEN SubscriptionData ELSE {FreeSub}

\* the vanilla bootstrap from the page load on
NextBoot ==
  \/ \E user \in {Null, Uid} : authStateChanged(user)
  \/ \E req \in net, st \in Responses : initUserDone(req, st)
  \/ \E req \in net, st \in Responses, has \in BOOLEAN :
        checkApiKeyStatusDone(req, st, has)
  \/ \E req \in net, st \in Responses : initAuthCasesLoaded(req, st)
  \/ loadNotifications
  \/ \E req \in net, st \in Responses : loadNotificationsDone(req, st)
  \/ \E req \in net, st \in Responses : \E d \in Bodies(st) :
        checkSubscriptionDone(req, st, d)
  \/ premiumInitTimer
  \/ \E req \in net, st \in Responses, f \in VersionIds \cup {Null} :
        selectCaseFetched(req, st, f)
  \/ \E req \in net, st \in Responses : loadTeamMembersDone(req, st)
  \/ \E req \in net, st \in Responses, ready \in BOOLEAN :
        selectVersionFetched(req, st, ready)
  \/ \E req \in net, st \in Responses : loadCommentsFetched(req, st)
  \/ \E v \in VersionIds : resizeObserved(v)
  \/ logout
  \/ loadApp

SpecBoot == InitVanilla /\ [][NextBoot]_vars

\* version selection and deep dives on the vanilla page
NextCharts ==
  \/ \E v \in VersionIds : selectVersion(v)
  \/ \E req \in net, st \in Responses, ready \in BOOLEAN :
        selectVersionFetched(req, st, ready)
  \/ \E req \in net, st \in Responses : loadCommentsFetched(req, st)
  \/ \E v \in VersionIds : resizeObserved(v)
  \/ runDeepDive
  \/ \E req \in net, st \in Responses, left \in 0..MaxDeepDives,
         ready \in BOOLEAN : runDeepDiveDone(req, st, left, ready)
  \/ \E req \in net, st \in Responses : runDeepDiveCasesLoaded(req, st)

SpecCharts == InitVanillaBooted /\ [][NextCharts]_vars

\* version selection and comments, in either client; the user clicks a
\* plain version and a deep-dive version of the history list
ClickedVersions == {"v1", "v3"}

InitClients ==
  /\ premium_status = {}
  /\ InitVanillaBooted \/ InitReact

NextClients ==
  \/ \E v \in ClickedVersions : selectVersion(v)
  \/ \E req \in net, st \in Responses, ready \in BOOLEAN :
        selectVersionFetched(req, st, ready)
  \/ \E req \in net, st \in Responses : loadCommentsFetched(req, st)
  \/ \E v \in VersionIds : resizeObserved(v)
  \/ \E t \in Texts : typeComment(t)
  \/ addComment
  \/ \E req \in net, st \in Responses : addCommentDone(req, st)
  \/ \E v \in ClickedVersions : handleSelectVersion(v)
  \/ \E req \in net : \E a \in AxiosAnswers(req) :
        handleSelectVersionFetched(req, a.status, a.tok, a.signOutOk)
  \/ \E req \in net : \E a \in AxiosAnswers(req) :
        fetchCommentsDone(req, a.status, a.tok, a.signOutOk)
  \/ \E t \in Texts : setNewComment(t)
  \/ submitComment
  \/ \E req \in net : \E a \in AxiosAnswers(req) :
        handleAddCommentDone(req, a.status, a.tok, a.signOutOk)
  \/ onAuthStateChanged
  \/ signInWithGoogle

SpecClients == InitClients /\ [][NextClients]_vars

\* the subscription and its cache, in either client
Idle == Cardinality(net) < MaxPending

InitPremium == InitVanillaBooted \/ InitReactLoaded

\* the answers followed here: success, 401 and a server error
PremiumAnswers(req) == {a \in AxiosAnswers(req) : a.status \in {200, 401, 500}}

\* the same for the demo upgrade and for the reloads that end a deep dive:
\* success and a server error
ReloadAnswers(req) == {a \in AxiosAnswers(req) : a.status \in {200, 500}}

NextPremium ==
  \/ Idle /\ runDeepDive
  \/ \E req \in net, st \in Responses, left \in 0..MaxDeepDives,
         ready \in BOOLEAN : runDeepDiveDone(req, st, left, ready)
  \/ \E req \in net, st \in Responses : runDeepDiveCasesLoaded(req, st)
  \/ \E v \in VersionIds : resizeObserved(v)
  \/ Idle /\ upgradeToPro
  \/ \E req \in net, st \in Responses, oid \in OrderIds :
        upgradeToProOrdered(req, st, oid)
  \/ razorpayHandler
  \/ \E req \in net, st \in Responses, ok \in BOOLEAN :
        razorpayVerified(req, st, ok)
  \/ \E req \in net, st \in Responses : \E d \in Bodies(st) :
        checkSubscriptionDone(req, st, d)
  \/ logout
  \/ Idle /\ PremiumProvider_checkSubscription
  \/ Idle /\ SetupPanel_handleDeepDive
  \/ \E req \in net : \E a \in PremiumAnswers(req) : \E d \in Bodies(a.status) :
        checkSubscriptionSettled(req, a.status, a.tok, a.signOutOk, d)
  \/ \E req \in net : \E a \in PremiumAnswers(req) :
        handleDeepDiveRan(req, a.status, a.tok, a.signOutOk)
  \/ \E req \in net : \E a \in ReloadAnswers(req) :
        handleDeepDiveCaseFetched(req, a.status, a.tok, a.signOutOk)
  \/ \E req \in net : \E a \in ReloadAnswers(req) :
        handleDeepDiveVersionFetched(req, a.status, a.tok, a.signOutOk)
  \/ \E req \in net : \E a \in ReloadAnswers(req) :
        handleDeepDiveCommentsFetched(req, a.status, a.tok, a.signOutOk)
  \/ \E req \in net : \E a \in ReloadAnswers(req) :
        fetchCasesDone(req, a.status, a.tok, a.signOutOk)
  \/ Idle /\ handleDemoUpgrade
  \/ \E req \in net, left \in 0..MaxDeepDives : \E a \in ReloadAnswers(req) :
        handleDemoUpgradeDone(req, a.status, a.tok, a.signOutOk, left)
  \/ \E so \in BOOLEAN : AuthProvider_logout(so)
  \/ onAuthStateChanged
  \/ signInWithGoogle

SpecPremium == InitPremium /\ [][NextPremium]_vars

\* the tabs of ResultsPanel while versions are selected and the
\* subscription is checked again
TabVersions == {"v1", "v2"}
TabAnswers(req) == {a \in AxiosAnswers(req) : a.status \in {200, 500}}

InitTabs == InitReactLoaded

NextTabs ==
  \/ \E tab \in TabIds : setActiveTab(tab)
  \/ \E v \in TabVersions : Idle /\ handleSelectVersion(v)
  \/ \E req \in net : \E a \in TabAnswers(req) :
        handleSelectVersionFetched(req, a.status, a.tok, a.signOutOk)
  \/ \E req \in net : \E a \in TabAnswers(req) :
        fetchCommentsDone(req, a.status, a.tok, a.signOutOk)
  \/ Idle /\ PremiumProvider_checkSubscription
  \/ \E req \in net : \E a \in TabAnswers(req) : \E d \in Bodies(a.status) :
        checkSubscriptionSettled(req, a.status, a.tok, a.signOutOk, d)

SpecTabs == InitTabs /\ [][NextTabs]_vars

\* ------------------------------------------------------------------------
\* loadRazorpayScript: the document, window.Razorpay and the promise of
\* every call
\* ------------------------------------------------------------------------
\* a call: which branch it took, the state of its promise, and its
\* setInterval and setTimeout while they are pending
Load(kind, promise, waits) ==
  [kind |-> kind, promise |-> promise, interval |-> waits, timeout |-> waits]

\* resolve and reject settle a pending promise and are ignored afterwards
resolve(c) == IF c.promise = "pending" THEN [c EXCEPT !.promise = "resolved"]
              ELSE c
reject(c) == IF c.promise = "pending" THEN [c EXCEPT !.promise = "rejected"]
             ELSE c

\* the executor without the look for an existing script element
loadAppendsAlways(u) ==
  IF u.Razorpay
  THEN [u EXCEPT !.loads = Append(@, Load("ready", "resolved", FALSE))]
  ELSE [u EXCEPT !.scripts = @ + 1, !.scriptState = "loading",
                 !.loads = Append(@, Load("appended", "pending", FALSE))]

\* the executor of the promise loadRazorpayScript returns
loadExecutor(u) ==
  IF u.Razorpay
  THEN [u EXCEPT !.loads = Append(@, Load("ready", "resolved", FALSE))]
  ELSE IF u.scripts > 0
  THEN [u EXCEPT !.loads = Append(@, Load("waiting", "pending", TRUE))]
  ELSE [u EXCEPT !.scripts = @ + 1, !.scriptState = "loading",
                 !.loads = Append(@, Load("appended", "pending", FALSE))]

loadRazorpayScript ==
  /\ location = "/app"
  /\ Len(ui.loads) < MaxCalls
  /\ ui' = loadExecutor(ui)
  /\ lastOp' = "loadRazorpayScript"
  /\ alertMsg' = <<>>
  /\ UNCHANGED <<client, location, currentUser, appState, userSubscription,
                 premium_status, net, bootLog, reactVars, hist>>

\* the calls that appended the element: its onload and onerror settle them
settleAppended(u, ok) ==
  [i \in 1..Len(u.loads) |->
     IF u.loads[i].kind # "appended" THEN u.loads[i]
     ELSE IF ok THEN resolve(u.loads[i]) ELSE reject(u.loads[i])]

\* script.onload: checkout.js has run and has (defines) or has not defined
\* window.Razorpay
scriptOnload(defines) ==
  /\ location = "/app"
  /\ ui.scriptState = "loading"
  /\ ui' = [ui EXCEPT !.scriptState = "loaded",
                      !.Razorpay = @ \/ defines,
                      !.loads = settleAppended(ui, ui.Razorpay \/ defines)]
  /\ lastOp' = "script.onload"
  /\ alertMsg' = <<>>
  /\ UNCHANGED <<client, location, currentUser, appState, userSubscription,
                 premium_status, net, bootLog, reactVars, hist>>

\* script.onerror
scriptOnerror ==
  /\ location = "/app"
  /\ ui.scriptState = "loading"
  /\ ui' = [ui EXCEPT !.scriptState = "failed",
                      !.loads = settleAppended(ui, FALSE)]
  /\ lastOp' = "script.onerror"
  /\ alertMsg' = <<>>
  /\ UNCHANGED <<client, location, currentUser, appState, userSubscription,
                 premium_status, net, bootLog, reactVars, hist>>

\* a tick of the setInterval of call i that finds window.Razorpay (the
\* other ticks change nothing)
checkInterval(i) ==
  /\ location = "/app"
  /\ i \in 1..Len(ui.loads)
  /\ ui.loads[i].interval
  /\ ui.Razorpay
  /\ ui' = [ui EXCEPT !.loads[i] = [resolve(@) EXCEPT !.interval = FALSE]]
  /\ lastOp' = "checkInterval"
  /\ alertMsg' = <<>>
  /\ UNCHANGED <<client, location, currentUser, appState, userSubscription,
                 premium_status, net, bootLog, reactVars, hist>>

\* the setTimeout of call i, ten seconds after the call
loadTimeout(i) ==
  /\ location = "/app"
  /\ i \in 1..Len(ui.loads)
  /\ ui.loads[i].timeout
  /\ ui' = [ui EXCEPT !.loads[i] = [reject(@) EXCEPT !.interval = FALSE,
                                                     !.timeout = FALSE]]
  /\ lastOp' = "loadTimeout"
  /\ alertMsg' = <<>>
  /\ UNCHANGED <<client, location, currentUser, appState, userSubscription,
                 premium_status, net, bootLog, reactVars, hist>>

\* ------------------------------------------------------------------------
\* Vanilla client: cases.js deleteCase
\* ------------------------------------------------------------------------
\* deleteCase after its confirm, up to its await of the delete request
deleteCase(caseId) ==
  /\ Vanilla /\ MaySend
  /\ currentUser # Null
  /\ caseId \in {appState.cases[i] : i \in 1..Len(appState.cases)}
  /\ net' = net \cup {Req("deleteCase", "/api/cases/delete", {currentUser},
                           Null, caseId)}
  /\ lastOp' = "deleteCase"
  /\ alertMsg' = <<>>
  /\ UNCHANGED <<reactVars, hist, bootLog, client, location, currentUser,
                 appState, userSubscription, premium_status, ui>>

\* ... from the answer on: whatever its status, the active case and
\* version are forgotten, loadCases starts and the results are cleared; a
\* rejected fetch ends the handler
deleteCaseDone(req, status) ==
  /\ Vanilla
  /\ req \in net /\ req.op = "deleteCase"
  /\ lastOp' = "deleteCaseDone"
  /\ IF status = 0
     THEN /\ net' = net \ {req}
          /\ UNCHANGED <<appState, ui>>
     ELSE /\ appState' = [appState EXCEPT !.activeCaseId = Null,
                                          !.activeVersionId = Null]
          /\ ui' = clearResults(ui)
          /\ net' = (net \ {req}) \cup
                      {Req("deleteCase.loadCases", "/api/cases/list",
                           {currentUser}, Null, Null)}
  /\ alertMsg' = <<>>
  /\ UNCHANGED <<reactVars, hist, bootLog, client, location, currentUser,
                 userSubscription, premium_status>>

\* the loadCases deleteCase started: the first case is selected when none
\* is active
deleteCaseCasesLoaded(req, status) ==
  /\ Vanilla
  /\ req \in net /\ req.op = "deleteCase.loadCases"
  /\ lastOp' = "deleteCaseCasesLoaded"
  /\ IF status = 0
     THEN /\ net' = net \ {req}
          /\ UNCHANGED appState
     ELSE LET cases == IF status = 200 THEN ServerCases ELSE <<>>
          IN  /\ appState' = [appState EXCEPT !.cases = cases]
              /\ net' = (net \ {req}) \cup
                          (IF Len(cases) > 0 /\ appState.activeCaseId = Null
                           THEN selectCaseReqs(cases[1]) ELSE {})
  /\ alertMsg' = <<>>
  /\ UNCHANGED <<reactVars, hist, bootLog, client, location, currentUser,
                 userSubscription, premium_status, ui>>

\* the cases and versions of the sidebar, and the comment box
InitCases ==
  /\ premium_status = {}
  /\ InitVanillaBooted

NextCases ==
  \/ \E c \in CaseIds : Idle /\ selectCase(c)
  \/ \E req \in net, st \in Responses, f \in VersionIds \cup {Null} :
        selectCaseFetched(req, st, f)
  \/ \E req \in net, st \in Responses : loadTeamMembersDone(req, st)
  \/ \E req \in net, st \in Responses, ready \in BOOLEAN :
        selectVersionFetched(req, st, ready)
  \/ \E req \in net, st \in Responses : loadCommentsFetched(req, st)
  \/ \E t \in Texts : typeComment(t)
  \/ Idle /\ addComment
  \/ \E req \in net, st \in Responses : addCommentDone(req, st)
  \/ \E c \in CaseIds : Idle /\ deleteCase(c)
  \/ \E req \in net, st \in Responses : deleteCaseDone(req, st)
  \/ \E req \in net, st \in Responses : deleteCaseCasesLoaded(req, st)

SpecCases == InitCases /\ [][NextCases]_vars

\* ------------------------------------------------------------------------
\* React client: the cases of the Dashboard
\* ------------------------------------------------------------------------
\* a click on a case of the sidebar that is not expanded: handleCaseClick
\* calls onSelectCase, which is loadCaseDetails, up to its await of
\* fetchCase and fetchTeamMembers (one entry of net stands for the pair)
loadCaseDetails(caseId) ==
  /\ React /\ MaySend
  /\ react.currentUser # Null
  /\ net' = net \cup {apiPost("loadCaseDetails", "/api/cases/get", user_id,
                               Null, caseId)}
  /\ hist' = noAnswer(hist)
  /\ lastOp' = "loadCaseDetails"
  /\ alertMsg' = <<>>
  /\ UNCHANGED <<client, location, premium_status, reactVars, vanillaVars>>

\* ... from the two answers on (first: caseData.versions[0], or Null)
loadCaseDetailsFetched(req, status, tok, signOutOk, first) ==
  /\ req.op = "loadCaseDetails"
  /\ first \in LatestVersions(req.cid)
  /\ LET shown == [react EXCEPT !.versions = req.cid,
                                !.teamMembers = req.cid]
     IN  settled(req, status, tok, signOutOk,
                 IF first = Null
                 THEN [setSelectedVersion(shown, Null) EXCEPT !.comments = Null]
                 ELSE shown,
                 IF first = Null THEN {}
                 ELSE {apiPost("loadCaseDetails.fetchVersion",
                               "/api/versions/get", user_id, first, req.cid)},
                 <<>>, "loadCaseDetailsFetched", "loadCaseDetails.failed")

\* ... from the answer of fetchVersion up to the await of fetchComments
loadCaseDetailsVersionFetched(req, status, tok, signOutOk) ==
  /\ req.op = "loadCaseDetails.fetchVersion"
  /\ settled(req, status, tok, signOutOk,
             setSelectedVersion(react, req.vid),
             {apiPost("loadCaseDetails.fetchComments", "/api/comments/list",
                      {}, req.vid, Null)},
             <<>>, "loadCaseDetailsVersionFetched", "loadCaseDetails.failed")

\* body of a successful /api/analyze for a request with case_id cid: the
\* ids of the case and of the version the run stored
AnalyzeData(cid) ==
  [case_id |-> IF cid = Null THEN "c1" ELSE cid,
   version_id |-> IF cid = "c2" THEN "v3" ELSE "v1"]

\* handleRunAnalysis up to its await of runAnalysis
handleRunAnalysis ==
  /\ React /\ MaySend
  /\ react.currentUser # Null
  /\ net' = net \cup {apiPost("handleRunAnalysis", "/api/analyze", user_id,
                               Null, react.activeCase)}
  /\ hist' = noAnswer(hist)
  /\ lastOp' = "handleRunAnalysis"
  /\ alertMsg' = <<>>
  /\ UNCHANGED <<client, location, premium_status, reactVars, vanillaVars>>

\* ... and from await to await: fetchCase, fetchVersion, fetchComments,
\* fetchCases
handleRunAnalysisRan(req, status, tok, signOutOk) ==
  /\ req.op = "handleRunAnalysis"
  /\ LET result == AnalyzeData(req.cid)
     IN  settled(req, status, tok, signOutOk,
                 react,
                 {apiPost("handleRunAnalysis.fetchCase", "/api/cases/get",
                          user_id, result.version_id, result.case_id)},
                 <<>>, "handleRunAnalysisRan", "handleRunAnalysis.failed")

handleRunAnalysisCaseFetched(req, status, tok, signOutOk) ==
  /\ req.op = "handleRunAnalysis.fetchCase"
  /\ settled(req, status, tok, signOutOk,
             [react EXCEPT !.versions = req.cid],
             {apiPost("handleRunAnalysis.fetchVersion", "/api/versions/get",
                      user_id, req.vid, Null)},
             <<>>, "handleRunAnalysisCaseFetched", "handleRunAnalysis.failed")

handleRunAnalysisVersionFetched(req, status, tok, signOutOk) ==
  /\ req.op = "handleRunAnalysis.fetchVersion"
  /\ settled(req, status, tok, signOutOk,
             setSelectedVersion(react, req.vid),
             {apiPost("handleRunAnalysis.fetchComments", "/api/comments/list",
                      {}, req.vid, Null)},
             <<>>, "handleRunAnalysisVersionFetched",
             "handleRunAnalysis.failed")

handleRunAnalysisCommentsFetched(req, status, tok, signOutOk) ==
  /\ req.op = "handleRunAnalysis.fetchComments"
  /\ settled(req, status, tok, signOutOk,
             [react EXCEPT !.comments = req.vid],
             {apiPost("fetchCases", "/api/cases/list", user_id, Null, Null)},
             <<>>, "handleRunAnalysisCommentsFetched",
             "handleRunAnalysis.failed")

\* handleInvite (onSubmit of InviteModal) up to its await of inviteMember
handleInvite ==
  /\ React /\ MaySend
  /\ react.activeCase # Null
  /\ net' = net \cup {apiPost("handleInvite", "/api/team/invite", user_id,
                               Null, react.activeCase)}
  /\ hist' = noAnswer(hist)
  /\ lastOp' = "handleInvite"
  /\ alertMsg' = <<>>
  /\ UNCHANGED <<client, location, premium_status, reactVars, vanillaVars>>

\* ... up to its await of fetchTeamMembers
handleInviteDone(req, status, tok, signOutOk) ==
  /\ req.op = "handleInvite"
  /\ settled(req, status, tok, signOutOk,
             react,
             {apiPost("handleInvite.fetchTeamMembers", "/api/team/members",
                      user_id, Null, req.cid)},
             <<"Failed to send invitation">>, "handleInviteDone",
             "handleInvite.failed")

\* ... and to its end
handleInviteMembersFetched(req, status, tok, signOutOk) ==
  /\ axiosSettled(req, status, tok, signOutOk)
  /\ req.op = "handleInvite.fetchTeamMembers"
  /\ LET o == responseOutcome(req, status, tok, signOutOk)
     IN  /\ premium_status' = cacheAfter(o)
         /\ react' = reactAfter(o,
                                IF o = "fulfilled"
                                THEN [react EXCEPT !.teamMembers = req.cid]
                                ELSE react,
                                cacheAfter(o))
         /\ net' = netAfter(o, req, {})
         /\ alertMsg' = interceptorAlerts(status, o) \o
                          (IF o = "fulfilled"
                           THEN <<"Invitation sent successfully!">>
                           ELSE IF o = "retried" THEN <<>>
                           ELSE <<"Failed to send invitation">>)
         /\ lastOp' = IF o = "fulfilled" THEN "handleInviteMembersFetched"
                      ELSE IF o = "retried" THEN "axios.retry"
                      ELSE "handleInvite.failed"

\* the Dashboard once loadInitialData has shown the first case, for a
\* premium user
DashboardAnswers(req) == {a \in AxiosAnswers(req) : a.status \in {200, 500}}

InitDashboard ==
  /\ client = "react"
  /\ location = "/app"
  /\ currentUser = Null
  /\ appState = FreshAppState
  /\ premium_status = {Subscription("pro", TRUE, 1)}
  /\ userSubscription = FreeSub
  /\ ui = FreshUi
  /\ net = {}
  /\ alertMsg = <<>>
  /\ bootLog = <<>>
  /\ authUser = Uid
  /\ user_id = {Uid}
  /\ auth_token = {"token"}
  /\ react = [FreshReact(premium_status) EXCEPT !.currentUser = Uid,
                                                !.activeCase = "c1",
                                                !.versions = "c1",
                                                !.teamMembers = "c1"]
  /\ lastOp = "load"
  /\ hist = FreshHist

NextDashboard ==
  \/ \E c \in CaseIds : Idle /\ loadCaseDetails(c)
  \/ \E req \in net, first \in VersionIds \cup {Null} :
        \E a \in DashboardAnswers(req) :
          loadCaseDetailsFetched(req, a.status, a.tok, a.signOutOk, first)
  \/ \E req \in net : \E a \in DashboardAnswers(req) :
        loadCaseDetailsVersionFetched(req, a.status, a.tok, a.signOutOk)
  \/ \E req \in net : \E a \in DashboardAnswers(req) :
        fetchCommentsDone(req, a.status, a.tok, a.signOutOk)
  \/ Idle /\ handleRunAnalysis
  \/ \E req \in net : \E a \in DashboardAnswers(req) :
        handleRunAnalysisRan(req, a.status, a.tok, a.signOutOk)
  \/ \E req \in net : \E a \in DashboardAnswers(req) :
        handleRunAnalysisCaseFetched(req, a.status, a.tok, a.signOutOk)
  \/ \E req \in net : \E a \in DashboardAnswers(req) :
        handleRunAnalysisVersionFetched(req, a.status, a.tok, a.signOutOk)
  \/ \E req \in net : \E a \in DashboardAnswers(req) :
        handleRunAnalysisCommentsFetched(req, a.status, a.tok, a.signOutOk)
  \/ \E req \in net : \E a \in DashboardAnswers(req) :
        fetchCasesDone(req, a.status, a.tok, a.signOutOk)
  \/ Idle /\ handleInvite
  \/ \E req \in net : \E a \in DashboardAnswers(req) :
        handleInviteDone(req, a.status, a.tok, a.signOutOk)
  \/ \E req \in net : \E a \in DashboardAnswers(req) :
        handleInviteMembersFetched(req, a.status, a.tok, a.signOutOk)
  \/ Idle /\ SetupPanel_handleDeepDive
  \/ \E req \in net : \E a \in DashboardAnswers(req) :
        \E d \in Bodies(a.status) :
          checkSubscriptionSettled(req, a.status, a.tok, a.signOutOk, d)
  \/ \E req \in net : \E a \in DashboardAnswers(req) :
        handleDeepDiveRan(req, a.status, a.tok, a.signOutOk)
  \/ \E req \in net : \E a \in DashboardAnswers(req) :
        handleDeepDiveCaseFetched(req, a.status, a.tok, a.signOutOk)
  \/ \E req \in net : \E a \in DashboardAnswers(req) :
        handleDeepDiveVersionFetched(req, a.status, a.tok, a.signOutOk)
  \/ \E req \in net : \E a \in DashboardAnswers(req) :
        handleDeepDiveCommentsFetched(req, a.status, a.tok, a.signOutOk)

SpecDashboard == InitDashboard /\ [][NextDashboard]_vars

\* the form and the Analyze button of the vanilla client: the fields the
\* user edits and the values typed into them
EditedFields == {"bodyTemplate", "questionsManual"}
Typed == {"", "x"}

InitAnalysis ==
  /\ client = "vanilla"
  /\ location = "/app"
  /\ currentUser = Uid
  /\ \E has \in BOOLEAN :
        appState = [FreshAppState EXCEPT !.cases = ServerCases, !.hasApiKey = has]
  /\ premium_status \in {{}, {Subscription("pro", TRUE, 1)}}
  /\ userSubscription = FreshUserSubscription(premium_status)
  /\ ui = IF premium_status = {} THEN FreshUi
          ELSE updatePremiumUI(FreshUi, userSubscription)
  /\ net = {}
  /\ alertMsg = <<>>
  /\ bootLog = BootLogDone
  /\ authUser = Null
  /\ user_id = {}
  /\ auth_token = {}
  /\ react = FreshReact({})
  /\ lastOp = "load"
  /\ hist = FreshHist

NextAnalysis ==
  \/ \E f \in EditedFields, value \in Typed : inputEvent(f, value)
  \/ Idle /\ runAnalysis
  \/ \E req \in net, st \in Responses, confirmed \in BOOLEAN :
        \E d \in Bodies(st) : runAnalysisChecked(req, st, d, confirmed)
  \/ \E req \in net, st \in Responses, has \in BOOLEAN :
        openSettingsDone(req, st, has)
  \/ \E req \in net, st \in Responses, hasIds, ready \in BOOLEAN :
        runAnalysisDone(req, st, hasIds, ready)
  \/ \E req \in net, st \in Responses : runAnalysisCasesLoaded(req, st)
  \/ Idle /\ selectVersion("v1")
  \/ \E req \in net, st \in Responses, ready \in BOOLEAN :
        selectVersionFetched(req, st, ready)
  \/ \E req \in net, st \in Responses : loadCommentsFetched(req, st)

SpecAnalysis == InitAnalysis /\ [][NextAnalysis]_vars

\* the payment flow of either client: the vanilla page, and the React page
\* on which handleDeepDive of Dashboard has opened PricingModal
InitPayment ==
  \/ InitVanillaBooted
  \/ /\ client = "react"
     /\ location = "/app"
     /\ currentUser = Null
     /\ appState = FreshAppState
     /\ premium_status = {newSubscription(FreeSub)}
     /\ userSubscription = FreeSub
     /\ ui = FreshUi
     /\ net = {}
     /\ alertMsg = <<>>
     /\ bootLog = <<>>
     /\ authUser = Uid
     /\ user_id = {Uid}
     /\ auth_token = {"token"}
     /\ react = [FreshReact(premium_status) EXCEPT !.currentUser = Uid,
                                                   !.activeCase = "c1",
                                                   !.pricingOpen = TRUE]
     /\ lastOp = "PremiumProvider.checkSubscription.ok"
     /\ hist = FreshHist

NextPayment ==
  \/ openPricingModal
  \/ Idle /\ upgradeToPro
  \/ \E req \in net, st \in Responses, oid \in OrderIds :
        upgradeToProOrdered(req, st, oid)
  \/ razorpayClosed
  \/ razorpayHandler
  \/ \E req \in net, st \in Responses, ok \in BOOLEAN :
        razorpayVerified(req, st, ok)
  \/ \E req \in net, st \in Responses : \E d \in Bodies(st) :
        checkSubscriptionDone(req, st, d)
  \/ logout
  \/ Idle /\ handleUpgrade
  \/ \E req \in net, oid \in OrderIds : \E a \in PremiumAnswers(req) :
        handleUpgradeOrdered(req, a.status, a.tok, a.signOutOk, oid)
  \/ \E loaded \in BOOLEAN : handleUpgradeScriptSettled(loaded)
  \/ ondismiss
  \/ paymentFailed
  \/ Idle /\ paymentHandler
  \/ \E req \in net, ok \in BOOLEAN, left \in 0..MaxDeepDives :
        \E a \in PremiumAnswers(req) :
          paymentVerified(req, a.status, a.tok, a.signOutOk, ok, left)
  \/ \E req \in net : \E a \in PremiumAnswers(req) : \E d \in Bodies(a.status) :
        checkSubscriptionSettled(req, a.status, a.tok, a.signOutOk, d)
  \/ \E so \in BOOLEAN : AuthProvider_logout(so)

SpecPayment == InitPayment /\ [][NextPayment]_vars

\* the calls of loadRazorpayScript on the page
InitRazorpay == InitPayment

NextRazorpay ==
  \/ loadRazorpayScript
  \/ \E defines \in BOOLEAN : scriptOnload(defines)
  \/ scriptOnerror
  \/ \E i \in 1..MaxCalls : checkInterval(i)
  \/ \E i \in 1..MaxCalls : loadTimeout(i)

\* the browser ends every script load with onload or onerror and fires
\* every timer that is not cleared
FairRazorpay ==
  /\ WF_vars((\E defines \in BOOLEAN : scriptOnload(defines)) \/ scriptOnerror)
  /\ \A i \in 1..MaxCalls : WF_vars(loadTimeout(i))

SpecRazorpay == InitRazorpay /\ [][NextRazorpay]_vars /\ FairRazorpay

\* the shapes of a payload: analysis objects as the analyzer may produce
\* them, bare or in the version wrapper of /api/versions/get
Evaluations == {{}, {[llm_judge |-> {[verdict |-> "pass"]}]}}
AnalysisObjects ==
  {[EmptyObj EXCEPT !.is_deep_dive = d, !.deep_dive_metrics = m,
                    !.deepMetrics = m2, !.visualization_data = vd, !.viz = vz,
                    !.evaluation = e, !.llm_judge = j, !.version_id = "v1"] :
     d \in BOOLEAN, m \in BOOLEAN, m2 \in BOOLEAN,
     vd \in {{}, {AllKeys}}, vz \in {{}, {{"radar"}}},
     e \in Evaluations, j \in {{}, {[verdict |-> "fail"]}}}

\* the version wrapper around an analysis object, with no evaluation and no
\* is_deep_dive of its own
Wrapper(a) ==
  [EmptyObj EXCEPT !.analysis_response = {a}, !.version_id = a.version_id,
                   !.case_id = CaseOf(a.version_id)]

Payloads == AnalysisObjects \cup {Wrapper(a) : a \in AnalysisObjects}

\* renderResults(payload), called with either shape
renderPayload(raw, ready) ==
  /\ Vanilla
  /\ ui' = renderResults(ui, raw, ready)
  /\ hist' = [hist EXCEPT !.payload = {raw}]
  /\ lastOp' = "renderResults"
  /\ alertMsg' = <<>>
  /\ UNCHANGED <<reactVars, bootLog, client, location, currentUser, appState,
                 userSubscription, premium_status, net>>

NextNormalize ==
  \/ \E raw \in Payloads, ready \in BOOLEAN : renderPayload(raw, ready)
  \/ \E v \in VersionIds : resizeObserved(v)

SpecNormalize == InitVanillaBooted /\ [][NextNormalize]_vars

\* ------------------------------------------------------------------------
\* Claims
\* ------------------------------------------------------------------------
Range(q) == {q[i] : i \in 1..Len(q)}

\* the page is at rest: no request in flight, no timer or observer pending
Quiet == net = {} /\ ui.timers = {} /\ ui.observers = {}

\* is_deep_dive of the version appState.activeVersionId names
ActiveIsDeepDive ==
  /\ appState.activeVersionId # Null
  /\ normalizeVersionPayload(ServerVersion(appState.activeVersionId)).is_deep_dive

VizTabShown == ui.vizTabDisplay # "none"

\* C1: in the vanilla client every chart canvas that holds a live chart
\* holds a chart of the version rendered last; no chart of an earlier
\* selection survives a later selectVersion, renderResults or runDeepDive.
C1_NoChartOfEarlierSelection ==
  client = "vanilla" =>
    \A k \in ChartKeys :
      ui.canvasChart[k] # Null => ui.canvasChart[k] = ui.lastRenderedVersionId

\* C2: whenever the vanilla page is at rest, the Visualizations tab is
\* shown if and only if the user is premium and the selected version is a
\* deep dive.
C2_VizTabIffPremiumAndDeepDive ==
  (client = "vanilla" /\ location = "/app" /\ Quiet) =>
    (VizTabShown <=> (userSubscription.is_premium /\ ActiveIsDeepDive))

\* the subscription the page shows
ShownSubscription == IF client = "vanilla" THEN userSubscription
                     ELSE react.subscription

\* C3: a subscription check that fails while premium_status holds a cached
\* subscription leaves the page showing the cached subscription, in the
\* vanilla client and in the React client.
C3_FailedCheckShowsCache ==
  [][(/\ premium_status # {}
      /\ lastOp' \in {"checkSubscription.failed",
                       "PremiumProvider.checkSubscription.failed"})
       => \A c \in premium_status : ShownSubscription' = c]_vars

\* the step ran authService.signOut from the response interceptor
InterceptorSignedOut(h) ==
  h.answered /\ h.status = 401 /\ ~h.retry /\ h.tok # "token" /\ h.signOutOk

C5_EmptyCommentIsNoOp ==
  [][(\/ /\ lastOp' = "addComment"
         /\ Trim(ui.newCommentText) = "" \/ appState.activeVersionId = Null
      \/ /\ lastOp' = "submitComment"
         /\ Trim(react.newComment) = "" \/ react.selectedVersion = Null)
       => /\ net' = net
          /\ ui'.commentsFor = ui.commentsFor
          /\ ui'.newCommentText = ui.newCommentText
          /\ appState' = appState
          /\ react'.comments = react.comments
          /\ react'.newComment = react.newComment
          /\ react'.selectedVersion = react.selectedVersion]_vars

\* addComment ran with a text but no version selected
C5_Witness ==
  /\ client = "vanilla"
  /\ lastOp = "addComment"
  /\ Trim(ui.newCommentText) # ""
  /\ appState.activeVersionId = Null
  /\ alertMsg = <<"Please select a version first">>
  /\ net = {}

\* C6: the successful answer of a version fetch is applied whatever has
\* been selected since: the version it names becomes the active, rendered
\* (vanilla) or selected (React) one.
C6_StaleResponseStillApplies ==
  [][/\ lastOp' = "selectVersionFetched.ok" =>
          \E req \in net \ net' :
            /\ req.op = "selectVersion"
            /\ appState'.activeVersionId = req.vid
            /\ ui'.summaryFor = req.vid
            /\ ui'.lastRenderedVersionId = req.vid
     /\ lastOp' = "handleSelectVersionFetched.ok" =>
          \E req \in net \ net' :
            /\ req.op = "handleSelectVersion"
            /\ react'.selectedVersion = req.vid]_vars

\* at rest, the active and rendered version is not the one selected last
C6_Witness ==
  /\ client = "vanilla" /\ Quiet
  /\ lastOp = "loadCommentsFetched"
  /\ hist.lastSelected # Null
  /\ appState.activeVersionId # Null
  /\ appState.activeVersionId # hist.lastSelected
  /\ ui.summaryFor = appState.activeVersionId
  /\ ui.lastRenderedVersionId = appState.activeVersionId

\* every entry b of bootLog has an entry a before it
Precedes(a, b) ==
  \A j \in 1..Len(bootLog) :
    bootLog[j] = b => \E i \in 1..(j - 1) : bootLog[i] = a

\* C7: the vanilla bootstrap runs in this order: user initialisation,
\* API-key status, loading of the cases, dispatch of the ready event whose
\* listeners run the subscription check, notification fetch.
C7_BootstrapOrder ==
  /\ Precedes("initUser.done", "checkApiKeyStatus")
  /\ Precedes("checkApiKeyStatus.done", "loadCases")
  /\ Precedes("loadCases.done", "auth-ready")
  /\ Precedes("auth-ready", "checkSubscription")
  /\ Precedes("checkSubscription", "loadNotifications")

\* the step signed the user out and left for /login
SignedOut == location = "/login" /\ auth_token = {} /\ authUser = Null

C10_EveryRequestCarriesUserId == \A req \in net : req.user_id # {}

\* the analysis object of a payload, and the payload of the other shape
AnalysisIn(raw) ==
  IF raw.analysis_response # {} THEN CHOOSE a \in raw.analysis_response : TRUE
  ELSE raw

\* the show-or-hide decision of renderResults
ShowsVisualizations(n) ==
  n.is_deep_dive /\ n.visualization_data # {} /\ n.deep_dive_metrics

\* C11: normalizeVersionPayload gives the bare analysis object and its
\* version wrapper the same is_deep_dive, visualization_data,
\* deep_dive_metrics and llmJudge, and renderResults shows the Visualizations
\* tab for the one exactly when it does for the other.
C11_ShapesNormalizeAlike ==
  \A raw \in hist.payload :
    LET a == AnalysisIn(raw)
        nb == normalizeVersionPayload(a)
        nw == normalizeVersionPayload(Wrapper(a))
        n  == normalizeVersionPayload(raw)
    IN  /\ nb.is_deep_dive = nw.is_deep_dive
        /\ nb.visualization_data = nw.visualization_data
        /\ nb.deep_dive_metrics = nw.deep_dive_metrics
        /\ nb.llmJudge = nw.llmJudge
        /\ ShowsVisualizations(nb) <=> ShowsVisualizations(nw)
        /\ lastOp = "renderResults" => (VizTabShown <=> ShowsVisualizations(nb))

\* a wrapper was rendered whose analysis object is a deep dive only by its
\* deep_dive_metrics, with the charts and the judge under their aliases
C11_Witness ==
  \E raw \in hist.payload :
    /\ lastOp = "renderResults"
    /\ raw.analysis_response # {}
    /\ ~AnalysisIn(raw).is_deep_dive /\ AnalysisIn(raw).deep_dive_metrics
    /\ AnalysisIn(raw).visualization_data = {} /\ AnalysisIn(raw).viz # {}
    /\ AnalysisIn(raw).evaluation # {}
    /\ VizTabShown

\* the /api/deep-dive requests among the requests n
DeepDiveReqs(n) == {req \in n : req.url = "/api/deep-dive"}

CanDeepDive(s) == s.is_premium /\ s.deep_dives_remaining > 0

\* a check of the subscription made for a click on Deep Dive is answered
DeepDiveCheckAnswered ==
  /\ lastOp' \in {"PremiumProvider.checkSubscription.ok",
                  "PremiumProvider.checkSubscription.failed"}
  /\ \E req \in net \ net' :
        /\ req.op = "checkSubscription"
        /\ req.by \in {"SetupPanel.handleDeepDive", "handleDeepDive"}

PricingPrompt ==
  \/ client = "vanilla" /\ ui.pricingModalDisplay = "flex"
  \/ client = "react" /\ react.pricingOpen
  \/ client = "react"
       /\ \E i \in DOMAIN alertMsg :
             alertMsg[i] = "You need to upgrade to Pro to use Deep Dive."

NoneRemainingMessage ==
  \E i \in DOMAIN alertMsg :
     alertMsg[i] \in {"You've used all your deep dives for this month.",
                      "No deep dives remaining this month",
                      "No deep dives remaining for this month."}

CheckoutOpens ==
  \/ client = "vanilla" /\ "razorpay" \in ui'.timers \ ui.timers
  \/ client = "react" /\ react.checkout = {} /\ react'.checkout # {}

CheckoutOrderIds ==
  IF client = "vanilla" THEN {ui'.checkoutOrder} ELSE react'.checkout

\* the steps of the payment flow up to and including the answer of
\* /api/payments/verify
PaymentOps ==
  {"upgradeToPro", "upgradeToProOrdered", "razorpayClosed", "razorpayHandler",
   "razorpayVerified", "handleUpgrade", "handleUpgradeOrdered",
   "handleUpgrade.failed", "rzp.open", "ondismiss", "payment.failed",
   "paymentHandler", "paymentVerified.ok", "paymentVerified.failed"}

\* the checkSubscription that follows a verified payment
PaidChecks(n) ==
  {req \in n : req.op = "checkSubscription"
                 /\ req.by \in {"upgradeToPro", "handleUpgrade"}}

\* what C13 asks of a step
PaymentStep ==
  /\ CheckoutOpens => Null \notin CheckoutOrderIds
  /\ lastOp' \in PaymentOps /\ location' = "/app"
       => /\ ShownSubscription' # ShownSubscription
               => lastOp' = "paymentVerified.ok"
          /\ premium_status' # premium_status
               => lastOp' = "paymentVerified.ok"
          /\ PaidChecks(net') \ net # {}
               => lastOp' \in {"razorpayVerified", "paymentVerified.ok"}
                    /\ Len(alertMsg') = 1

\* C13: in the payment flow of either client the Razorpay checkout opens
\* only for an order the server has answered with an order_id; as long as
\* the page stays, a step of the flow changes the subscription, or asks the
\* server for it, only when /api/payments/verify has reported success, so a
\* dismissed, failed or unverified payment leaves the subscription as it was.
C13_PaymentFlow == [][PaymentStep]_vars

CachedPremium == \E c \in premium_status : c.is_premium

\* C14: when the subscription check at the start of runAnalysis fails while
\* premium_status holds a cached subscription with is_premium true, the run
\* goes on as a premium one: no API key is asked for, and /api/analyze is
\* sent with use_regressai_api true.
C14_FailedCheckUsesCache ==
  [][lastOp' \in {"checkFailed.noApiKey", "checkFailed.sent"} /\ CachedPremium
       => /\ lastOp' = "checkFailed.sent"
          /\ \A req \in net' \ net :
                req.url = "/api/analyze" => req.use_regressai_api]_vars

\* C16: while the subscription is premium and no API key is configured, the
\* Analyze button is disabled only for the time an analysis is running.
C16_PremiumNeedsNoApiKey ==
  userSubscription.is_premium /\ ~appState.hasApiKey /\ client = "vanilla"
    => (ui.analyzeDisabled => ui.analyzeLoading)

\* C17: when /api/analyze fails, or answers without case_id or version_id,
\* runAnalysis leaves activeCaseId, activeVersionId, lastRunInputs and
\* hasUnsavedChanges as they were and sets the status text to Error; and
\* every end of runAnalysis after the request leaves the Analyze button
\* without its loading state.
C17_FailedAnalysisChangesNothing ==
  [][/\ lastOp' = "analyze.failed"
          => /\ appState' = appState
             /\ ui'.statusText = "Error"
             /\ ~ui'.analyzeLoading
     /\ lastOp' = "runAnalysisCasesLoaded" => ~ui'.analyzeLoading]_vars

\* /api/analyze answered 200 without the ids while a version was active and
\* the form had unsaved changes
C17_Witness ==
  /\ lastOp = "analyze.failed"
  /\ ui.statusText = "Error"
  /\ appState.activeVersionId # Null
  /\ appState.hasUnsavedChanges
  /\ ~ui.analyzeLoading /\ ~ui.analyzeDisabled

Differs(inputs, last) == \E f \in Fields : inputs[f] # last[f]

\* what C18 says of every input event and of the end of a successful
\* selectVersion or runAnalysis
ChangeTracking ==
  /\ lastOp' = "inputEvent"
       => (appState'.hasUnsavedChanges
             <=> Differs(ui'.inputs, appState'.lastRunInputs))
  /\ \/ lastOp' = "analyze.answered"
     \/ \E req \in net \ net' : req.op = "selectVersion.loadComments"
     => ~appState'.hasUnsavedChanges

\* the input event of this step restores the form of before the last one
Restores(b) ==
  /\ lastOp = "inputEvent" /\ lastOp' = "inputEvent"
  /\ ui'.inputs = b.inputs

SubscriptionChecks(n) == {r \in n : r.url = "/api/subscription/check"}

\* the place of an entry in the boot log (0 when it is not there)
LogIndex(log, e) ==
  IF \E i \in 1..Len(log) : log[i] = e
  THEN CHOOSE i \in 1..Len(log) : log[i] = e /\ \A j \in 1..(i - 1) : log[j] # e
  ELSE 0

AuthReadyDispatched == LogIndex(bootLog, "auth-ready") = 0
                       /\ LogIndex(bootLog', "auth-ready") > 0

\* the step that dispatches auth-ready
AuthReadyStep ==
  AuthReadyDispatched =>
     /\ currentUser' # Null
     /\ LogIndex(bootLog', "currentUser") > 0
     /\ LogIndex(bootLog', "currentUser") < LogIndex(bootLog', "auth-ready")
     /\ \A l \in AuthReadyListeners :
           \E r \in SubscriptionChecks(net') \ net :
               r.by = l /\ r.user_id = {currentUser'}

\* the subscription checks a step of the vanilla page sends
ChecksHaveUser ==
  client = "vanilla" =>
     \A r \in SubscriptionChecks(net') \ net :
         currentUser' # Null /\ r.user_id = {currentUser'}

\* C15: when auth-ready is dispatched window.currentUser has been set to the
\* signed-in user before it, both auth-ready listeners find that user and
\* send their subscription check for it, and no step sends a
\* /api/subscription/check request while window.currentUser is null.
C15_AuthReadyFindsUser ==
  [][AuthReadyStep /\ ChecksHaveUser]_vars

C15_Witness ==
  /\ client = "vanilla"
  /\ lastOp = "authStateChanged"
  /\ currentUser # Null
  /\ LogIndex(bootLog, "auth-ready") > 0
  /\ \A l \in AuthReadyListeners :
        \E r \in SubscriptionChecks(net) : r.by = l /\ r.user_id = {currentUser}

\* ------------------------------------------------------------------------
\* C19
\* ------------------------------------------------------------------------
ShownDeepDive == isDeepDive(react.selectedVersion)
ShownPremium == react.subscription.is_premium

\* what ResultsPanel may have rendered in a step: with the tab of before
\* (the render that precedes the effects) and with the tab of after
RenderedIn(before, after) ==
  {renderTabContent(t, isDeepDive(after.selectedVersion),
                    after.subscription.is_premium)
     : t \in {before.activeTab, after.activeTab}}

VersionChanged ==
  react'.selectedVersion # Null
    /\ react'.selectedVersion # react.selectedVersion

TabStep ==
  client = "react" =>
    /\ VersionChanged => react'.activeTab = "summary"
    /\ react'.activeTab = "visualizations" => ShownDeepDive' /\ ShownPremium'
    /\ ~(ShownDeepDive' /\ ShownPremium')
         => "Visualizations" \notin RenderedIn(react, react')

\* C19: a step that selects another version leaves the active tab at
\* summary; after every step the active tab is visualizations only for a
\* deep dive version shown to a premium user; and in a step that ends
\* without a deep dive version or without premium no render shows the
\* Visualizations component.
C19_TabFallsBack == [][TabStep]_vars

\* the visualizations tab was open and the subscription check that came
\* back took premium away
C19_Witness ==
  /\ client = "react"
  /\ lastOp = "PremiumProvider.checkSubscription.ok"
  /\ isDeepDive(react.selectedVersion)
  /\ ~react.subscription.is_premium
  /\ hist.tabBefore = "visualizations"
  /\ react.activeTab = "summary"

\* ------------------------------------------------------------------------
\* C20
\* ------------------------------------------------------------------------
Called(i) == i <= Len(ui.loads)
Settled(i) == Called(i) /\ ui.loads[i].promise # "pending"

OneScript ==
  /\ ui.scripts <= 1
  /\ \A i \in 1..Len(ui.loads) :
        ui.loads[i].promise = "resolved" => ui.Razorpay

\* C20: at most one checkout.js element is ever appended, a resolved call
\* has window.Razorpay, and the promise of every call is settled in the end.
C20_OneScriptAllSettle ==
  /\ []OneScript
  /\ \A i \in 1..MaxCalls : Called(i) ~> Settled(i)

\* a call made while the script was loading has been settled, next to the
\* call that appended the one element
C20_Witness ==
  /\ ui.scripts = 1
  /\ \E i, j \in 1..Len(ui.loads) :
        /\ ui.loads[i].kind = "appended" /\ Settled(i)
        /\ ui.loads[j].kind = "waiting" /\ Settled(j)

\* ------------------------------------------------------------------------
\* C21
\* ------------------------------------------------------------------------
\* the React client is signed out: Firebase has no user, AuthProvider has
\* none, and the listener has removed user_id, user_email and user_name
ReactSignedOut ==
  /\ client = "react"
  /\ authUser = Null
  /\ react.currentUser = Null
  /\ user_id = {}

\* localStorage holds neither auth_token nor premium_status
StorageCleared == auth_token = {} /\ premium_status = {}

\* the signed-out event that follows a successful authService.signOut
LogoutCompletes ==
  lastOp = "authService.signOut" /\ lastOp' = "onAuthStateChanged"

\* C21: the step that completes a logout ends signed out with the storage
\* cleared, the storage stays cleared for as long as nobody signs in, and a
\* signOut that throws leaves currentUser alone and sets authError.
C21_LogoutClearsStorage ==
  [][/\ LogoutCompletes => ReactSignedOut' /\ StorageCleared'
     /\ ReactSignedOut /\ StorageCleared /\ authUser' = Null => StorageCleared'
     /\ lastOp' = "logout.failed"
          => react'.currentUser = react.currentUser /\ react'.authError]_vars

\* ------------------------------------------------------------------------
\* C22
\* ------------------------------------------------------------------------
\* C22: in the vanilla client an active version belongs to the active case,
\* and every comment request names a case and a version of that case.
C22_ActiveVersionInActiveCase ==
  client = "vanilla" =>
    /\ appState.activeVersionId # Null
         => CaseOf(appState.activeVersionId) = appState.activeCaseId
    /\ \A req \in net : req.op = "addComment" => CaseOf(req.vid) = req.cid

\* ------------------------------------------------------------------------
\* C23
\* ------------------------------------------------------------------------
\* the requests that start an analysis, a deep dive or an invitation
CaseRequests(n) ==
  {r \in n : r.url \in {"/api/analyze", "/api/deep-dive", "/api/team/invite"}}

\* C23: when the details of the case clicked in the sidebar have loaded,
\* that case is the active case and its versions and team members are
\* shown; the version selected from it belongs to it; and an analysis, a
\* deep dive or an invitation started afterwards names that case.
C23_ClickedCaseIsActive ==
  [][/\ lastOp' = "loadCaseDetailsFetched"
          => /\ react'.activeCase = hist'.lastCase
             /\ react'.versions = hist'.lastCase
             /\ react'.teamMembers = hist'.lastCase
     /\ lastOp' = "loadCaseDetailsVersionFetched"
          => CaseOf(react'.selectedVersion) = react'.versions
     /\ hist.lastCase # Null
          => \A r \in CaseRequests(net') \ net :
                ~r.retry => r.cid = hist.lastCase]_vars

====
